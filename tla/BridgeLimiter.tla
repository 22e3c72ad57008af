---------------------------- MODULE BridgeLimiter ----------------------------
(***************************************************************************)
(* The program implements Limiter on every route: of all its instructions, *)
(* only mints through the route and limit updates for it touch its ring.   *)
(*                                                                         *)
(* The history variables of Limiter are kept here for one route, Watched,  *)
(* whichever it is: the inflow and the lag of the ring are read off the    *)
(* program's log and accounts, the other two need variables of their own.  *)
(***************************************************************************)
EXTENDS BridgeLedger

CONSTANT Watched  \* the route whose limiter is watched

ASSUME WatchedAssumption == Watched \in Routes

VARIABLES
  hour_behind,  \* `Behind` when the current hour began
  peak          \* highest limit in force during the current hour

watchedVars == <<vars, hour_behind, peak>>

Hour == CurrentHour(unix_timestamp)

WatchedLimiter == limiter[Watched]

(* What the log says was minted through the route in hour h. *)
MintedIn(h) ==
  SumEvents(mint_events,
            LAMBDA e : IF e.route = Watched /\ e.hour = h THEN e.amount ELSE 0)

(* Hours from the ring's oldest hour to the current one. *)
Behind ==
  IF WatchedLimiter.is_initialized THEN Hour - WatchedLimiter.oldest_hour ELSE 0

History ==
  IF Hour' = Hour
  THEN /\ hour_behind' = hour_behind
       /\ peak' = Max({peak, WatchedLimiter'.total_limit})
  ELSE /\ hour_behind' = Behind'
       /\ peak' = WatchedLimiter.total_limit

WatchedInit == Init /\ hour_behind = 0 /\ peak = 0

WatchedNext == Next /\ History

WatchedSpec == WatchedInit /\ [][WatchedNext]_watchedVars

Route == INSTANCE Limiter WITH
           limiter <- WatchedLimiter,
           inflow <- [a \in Slot |-> MintedIn(Hour - a)],
           behind <- Behind

(* Whatever instructions, reconfigurations, transfers and hours interleave, *)
(* the limiter of each route takes the steps of Limiter or none, and the   *)
(* inflow it meters is exactly what the log says was minted: no mint       *)
(* escapes check_transfer, and no other route or instruction uses it up.   *)
ImplementsLimiter == Route!Spec

(* What the log says was minted through a route in the running hour is     *)
(* within the highest limit in force during that hour, times the whole     *)
(* turns the ring was behind when the hour began when those were two or    *)
(* more, whatever the submitters race for (mint_sbtc_with_signatures:90).  *)
HourlyMintCapped ==
  MintedIn(Hour) <= Max({1, hour_behind \div SLOTS}) * peak

(* However the hour was used up, by which mints and under which limit      *)
(* updates, an hour later the route takes its whole limit again.           *)
RouteRecovers ==
  Admits(WatchedLimiter, CurrentHour(unix_timestamp + SECONDS_PER_HOUR),
         WatchedLimiter.total_limit)
=============================================================================
