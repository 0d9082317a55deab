----------------------------- MODULE RateLimit -----------------------------
(***************************************************************************)
(* Outbound requests of one scope are spaced by a window: rate_limit.py.   *)
(* With the memory backend the threads of a process share a lock and the   *)
(* time of the last request; with the db backend the processes share a row *)
(* of rate_limit_states, which each reads, stamps with its own time and    *)
(* then tries to replace if nobody did so in between.                      *)
(***************************************************************************)
EXTENDS Integers

CONSTANTS
  Callers,    \* threads or processes that send requests
  Window,     \* policy.window_seconds of each, in ticks
  MaxTime,    \* bound: the clock stops there
  NoCaller

ASSUME RateAssumption ==
  /\ Window \in [Callers -> Nat \ {0}]
  /\ MaxTime \in Nat
  /\ NoCaller \notin Callers

Backend == {"memory", "db"}
Phase == {"idle", "ensure", "read", "stamp", "claim", "wait", "lock", "sleep"}

\* The row of the scope; the memory backend keeps last only.  Times are
\* positive; 0 stands for none.
SlotRow ==
  [exists : BOOLEAN, version : Nat, next : Nat, last : Nat, window : Nat, count : Nat]

CallerState == [at : Phase, version : Nat, next : Nat, stamp : Nat]

IdleCaller == [at |-> "idle", version |-> 0, next |-> 0, stamp |-> 0]

VARIABLES
  backend, \* policy.backend
  now,     \* the clock the callers share
  slot,    \* the committed row, or the last request of the process
  caller,  \* what each caller is doing, and the row as it read it
  holder   \* the thread inside the lock

rateVars == <<backend, now, slot, caller, holder>>

RateInit ==
  /\ backend \in Backend
  /\ now = 1
  /\ slot = [exists |-> FALSE, version |-> 0, next |-> 0, last |-> 0, window |-> 0, count |-> 0]
  /\ caller = [c \in Callers |-> IdleCaller]
  /\ holder = NoCaller

-----------------------------------------------------------------------------
Step(c, from, to) ==
  /\ caller[c].at = from
  /\ caller' = [caller EXCEPT ![c].at = to]

ToIdle(c) == caller' = [caller EXCEPT ![c] = IdleCaller]

\* wait_for_rate_limit
Ask(c) ==
  /\ Step(c, "idle", IF backend = "memory" THEN "lock" ELSE "ensure")
  /\ UNCHANGED <<backend, now, slot, holder>>

\* _ensure_rate_limit_state: the scope is unique, a second insert is undone.
Ensure(c) ==
  /\ Step(c, "ensure", "read")
  /\ slot' = IF slot.exists THEN slot ELSE [slot EXCEPT !.exists = TRUE, !.version = now]
  /\ UNCHANGED <<backend, now, holder>>

ReadState(c) ==
  /\ caller[c].at = "read"
  /\ caller' = [caller EXCEPT ![c] =
       [at |-> "stamp", version |-> slot.version, next |-> slot.next, stamp |-> 0]]
  /\ UNCHANGED <<backend, now, slot, holder>>

\* The time is read after the row, in another microsecond than the one the
\* row was written in.
Stamp(c) ==
  /\ caller[c].at = "stamp" /\ now > caller[c].version
  /\ caller' = [caller EXCEPT ![c].stamp = now,
                              ![c].at = IF caller[c].next <= now THEN "claim" ELSE "wait"]
  /\ UNCHANGED <<backend, now, slot, holder>>

\* UPDATE without the condition
UnchangedAny(c) == TRUE

\* UPDATE ... WHERE updated_at = the value read
Unchanged(c) == slot.version = caller[c].version

ClaimSlot(c) ==
  /\ caller[c].at = "claim"
  /\ IF Unchanged(c)
       THEN /\ slot' = [exists |-> TRUE, version |-> caller[c].stamp,
                        next |-> caller[c].stamp + Window[c], last |-> caller[c].stamp,
                        window |-> Window[c], count |-> slot.count + 1]
            /\ ToIdle(c)
       ELSE UNCHANGED slot /\ Step(c, "claim", "ensure")
  /\ UNCHANGED <<backend, now, holder>>

\* A sleep, capped by the poll interval, before the next try.
Retry(c) ==
  /\ Step(c, "wait", "ensure")
  /\ UNCHANGED <<backend, now, slot, holder>>

-----------------------------------------------------------------------------
(* The memory backend sleeps inside its lock. *)

Acquire(c) ==
  /\ caller[c].at = "lock" /\ holder = NoCaller
  /\ holder' = c
  /\ caller' = [caller EXCEPT
       ![c].at = "sleep", ![c].next = IF slot.last = 0 THEN now ELSE slot.last + Window[c]]
  /\ UNCHANGED <<backend, now, slot>>

Leave(c) == holder' = IF holder = c THEN NoCaller ELSE holder

Wake(c) ==
  /\ caller[c].at = "sleep" /\ now >= caller[c].next
  /\ slot' = [slot EXCEPT !.last = now, !.window = Window[c], !.count = @ + 1]
  /\ ToIdle(c) /\ Leave(c)
  /\ UNCHANGED <<backend, now>>

\* check_cancelled raises, or the process dies.
Abandon(c) ==
  /\ caller[c].at # "idle"
  /\ ToIdle(c) /\ Leave(c)
  /\ UNCHANGED <<backend, now, slot>>

Tick ==
  /\ now < MaxTime
  /\ now' = now + 1
  /\ UNCHANGED <<backend, slot, caller, holder>>

RateNext ==
  \/ \E c \in Callers :
       \/ Ask(c) \/ Ensure(c) \/ ReadState(c) \/ Stamp(c) \/ ClaimSlot(c) \/ Retry(c)
       \/ Acquire(c) \/ Wake(c) \/ Abandon(c)
  \/ Tick

RateSpec == RateInit /\ [][RateNext]_rateVars

-----------------------------------------------------------------------------
\* rate_limit.wait_for_rate_limit: whichever callers race for the slot and
\* however long each waits between its read, its stamp and its update, the
\* stamp of a granted request is a window later than the one before it: the
\* window of the earlier caller where the row stores it, the caller's own
\* where only the time is kept.
RequestsSpaced ==
  [][slot'.count # slot.count /\ slot.last > 0 =>
       slot'.last >= slot.last + IF backend = "db" THEN slot.window ELSE slot'.window]_rateVars
=============================================================================
