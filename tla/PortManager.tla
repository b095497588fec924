---------------------------- MODULE PortManager ----------------------------
(***************************************************************************)
(* The pool of public ports (crates/server/src/port_mgr.rs).  The pool is  *)
(* one HashSet behind one mutex, and every method is a single critical     *)
(* section, so each operator below is one atomic step of its caller.       *)
(***************************************************************************)
EXTENDS Integers

CONSTANTS RangeStart,   \* first port of the managed range (config port_range[0])
          RangeEnd,     \* last port of the managed range, inclusive
          None        \* Option::None where a port may be missing

ASSUME RangeAssumption == /\ RangeStart \in Nat
                          /\ RangeEnd \in Nat
                          /\ None \notin Int

VARIABLE available      \* ports still available for assignment

Pool == RangeStart .. RangeEnd

\* PortManager::in_range: the bounds are inclusive.
InRange(p) == p >= RangeStart /\ p <= RangeEnd

\* Fault for the mutation runs: a range built one port too long.
NewPortManager_TooLong == available = RangeStart .. RangeEnd + 1

\* PortManager::new: every port of the range is free.
NewPortManager == available = Pool

\* acquire: some free port, chosen at random.
Acquire(p) == /\ p \in available
              /\ available' = available \ {p}

\* acquire returns None.
Exhausted == available = {}

\* Fault: acquire_specific ignores what remove tells it.
AcquireSpecific_Taken(p) == InRange(p) /\ available' = available \ {p}

\* acquire_specific: the requested port, if it is in range and free.
AcquireSpecific(p) == /\ InRange(p)
                      /\ p \in available
                      /\ available' = available \ {p}

\* acquire_specific returns None.
Unavailable(p) == ~InRange(p) \/ p \notin available

\* release: ports outside the range are ignored.
Release(p) == available' = IF InRange(p) THEN available \cup {p} ELSE available
=============================================================================
