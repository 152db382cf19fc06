------------------------------ MODULE MCMarket ------------------------------
(* Acting on a moving market: pools and quotes, the oracle, orders,           *)
(* cross-chain swaps, staking and governance, alerts and monitoring.  These   *)
(* modules of the SDK share the chain and no state of their own, so a         *)
(* behaviour exercises one of them, chosen in Init, and the others stand      *)
(* still.                                                                     *)
EXTENDS Amm, Oracle, Orders, CrossChain, Governance, Alerts, Monitoring

VARIABLE focus

marketVars == <<ammVars, oracleVars, ordersVars, crossVars, govVars, alertsVars,
                monitoringVars, focus>>

TwoUrls == <<"u1", "u2">>

MarketInit ==
    /\ AmmInit /\ OracleInit /\ OrdersInit /\ CrossInit /\ GovInit /\ AlertsInit /\ MonitoringInit
    /\ focus \in {"pool", "swap", "liquidity", "flash", "oracle", "orders", "bridge", "governance",
                  "rules", "managed", "v2", "threshold", "metrics", "health"}
    \* Only a behaviour about pools starts from every pool, one about orders
    \* from every oracle price.
    /\ focus \notin {"pool", "swap", "liquidity", "flash"} =>
          pool[{1, 3}].lp = 0 /\ flashBps = CHOOSE f \in FlashFees : TRUE
    /\ focus # "orders" => oracle.price = CHOOSE p \in OraclePrices : TRUE

AmmPart ==
    \/ focus = "pool" /\ PoolNext
    \/ focus \in {"swap", "liquidity", "flash"} /\ moves = 0 /\ PoolNext
    \/ focus = "swap" /\ SwapNext
    \/ focus = "liquidity" /\ LiquidityNext
    \/ focus = "flash" /\ FlashNext

AlertsPart ==
    \/ focus = "rules" /\ RulesNext /\ UNCHANGED <<managedVars, v2Vars, thrVars>>
    \/ focus = "managed" /\ ManagedNext /\ UNCHANGED <<rulesVars, v2Vars, thrVars>>
    \/ focus = "v2" /\ V2Next /\ UNCHANGED <<rulesVars, managedVars, thrVars>>
    \/ focus = "threshold" /\ ThresholdNext /\ UNCHANGED <<rulesVars, managedVars, v2Vars>>

MonitoringPart ==
    \/ focus \in {"metrics", "health"} /\ ClockTicks
    \/ focus = "metrics" /\ MetricNext /\ UNCHANGED <<clock, healthVars>>
    \/ focus = "health" /\ HealthNext /\ UNCHANGED <<clock, metricVars>>

MarketNext ==
    /\ \/ AmmPart /\ UNCHANGED <<oracleVars, ordersVars, crossVars, govVars, alertsVars, monitoringVars>>
       \/ focus = "oracle" /\ OracleNext
            /\ UNCHANGED <<ammVars, ordersVars, crossVars, govVars, alertsVars, monitoringVars>>
       \/ focus = "orders" /\ OrdersNext
            /\ UNCHANGED <<ammVars, oracleVars, crossVars, govVars, alertsVars, monitoringVars>>
       \/ focus = "bridge" /\ CrossNext
            /\ UNCHANGED <<ammVars, oracleVars, ordersVars, govVars, alertsVars, monitoringVars>>
       \/ focus = "governance" /\ GovNext
            /\ UNCHANGED <<ammVars, oracleVars, ordersVars, crossVars, alertsVars, monitoringVars>>
       \/ AlertsPart
            /\ UNCHANGED <<ammVars, oracleVars, ordersVars, crossVars, govVars, monitoringVars>>
       \/ MonitoringPart
            /\ UNCHANGED <<ammVars, oracleVars, ordersVars, crossVars, govVars, alertsVars>>
    /\ UNCHANGED focus

(* What orders, staking and governance report to the caller as done has     *)
(* taken effect on the ledger.                                              *)
ReportedIsDone == CancelReportIsTrue /\ ReturnedMeansDone

MarketSpec == MarketInit /\ [][MarketNext]_marketVars
=============================================================================
