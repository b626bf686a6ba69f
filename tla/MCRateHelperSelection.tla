----------------------- MODULE MCRateHelperSelection -----------------------
(***************************************************************************)
(* Instances of RateHelperSelection for TLC: on day 2, deposits, a serial  *)
(* and three main futures, the first of which is being rolled, and two     *)
(* other instruments, of which one has started.                            *)
(***************************************************************************)
EXTENDS RateHelperSelection

Instrument(id, kind, earliest, latest) ==
  [objectID |-> id, kind |-> kind, earliestDate |-> earliest, latestDate |-> latest]

MCInstruments ==
  {Instrument(1, "depo", 2, 3),   Instrument(2, "depo", 2, 6),
   Instrument(3, "serial", 3, 5), Instrument(4, "main", 2, 4),
   Instrument(5, "main", 4, 6),   Instrument(6, "main", 6, 9),
   Instrument(7, "other", 2, 7),  Instrument(8, "other", 1, 5)}
=============================================================================
