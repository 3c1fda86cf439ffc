------------------------- MODULE AIApproveGateProofs -------------------------
(***************************************************************************)
(* The gate against SQLite, where a handler is not interrupted by another, *)
(* for any finite set of requests and any accounts, symbols, plans, modes, *)
(* limits, lifetimes and restarts: its three promises hold although each   *)
(* check reads what is written several steps later, while the clock and    *)
(* with it the day go on.                                                  *)
(***************************************************************************)
EXTENDS AIApproveGate, FiniteSetTheorems, TLAPS

\* The steps between the check of the queue and the decision, between the
\* check of the limits and the decision, and after the decision.
Unqueued == {"counting", "saving", "deciding"}
Within == {"saving", "deciding"}
Placed == {"rereading", "marking"}

Numbers ==
  /\ clock \in Nat /\ restarts \in Nat
  /\ DOMAIN req = Requests /\ DOMAIN row = Requests /\ DOMAIN cooldown = Symbols
  /\ \A r \in Requests :
       /\ DOMAIN req[r] = {"pc", "at", "todo", "seen"}
       /\ req[r].pc \in Steps /\ req[r].at \in Nat
       /\ DOMAIN row[r] = {"status", "side", "created", "expires"}
       /\ row[r].created \in Nat /\ row[r].expires \in Nat
  /\ \A s \in Symbols : cooldown[s] \subseteq Nat

\* One handler runs at a time, and it was the last to arrive.
Alone ==
  /\ \A r, q \in Requests : Busy(r) /\ Busy(q) => r = q
  /\ \A r \in Requests : req[r].at <= clock
  /\ \A r, q \in Requests : Busy(r) /\ req[q].pc # "new" => req[q].at <= req[r].at

\* A request writes its command once, and what others wrote was there when it arrived.
RowsOK ==
  /\ \A r \in Requests : req[r].pc = "new" => row[r].status = "none"
  /\ \A r \in Requests : row[r].created <= clock
  /\ \A r, q \in Requests :
       Busy(r) /\ q # r /\ row[q].status \in Issued => row[q].created <= req[r].at
  /\ \A r \in Requests :
       /\ req[r].pc = "deciding" => /\ row[r].status = "draft"
                                    /\ row[r].side = Side(r)
                                    /\ req[r].at <= row[r].created
       /\ req[r].pc \in Placed => row[r].status \in {"queued", "shadow_only"}
       /\ req[r].pc = "marking" => req[r].seen = row[r].status

\* What a check found is still so when the candidate is decided.
NoOther(r) ==
  \A q \in Requests : /\ q # r /\ SameInstrument(r, q)
                      /\ row[q].status = "queued" /\ row[q].side = Side(r)
                      => row[q].expires <= req[r].at
Cool(r) == \A t \in cooldown[SymbolOf[r]] : t + CooldownTTL <= req[r].at
ChecksHold ==
  \A r \in Requests :
    /\ req[r].pc \in Unqueued => NoOther(r)
    /\ req[r].pc \in Within => Cardinality(SignalsToday(r)) < DailyLimit /\ Cool(r)

\* Whatever was issued since the process started left a mark, or will.
Marked ==
  restarts = 0 =>
    \A q \in Requests :
      row[q].status \in Issued /\ req[q].pc \notin Placed =>
        \E t \in cooldown[SymbolOf[q]] : req[q].at <= t

GateInv ==
  /\ Numbers /\ Alone /\ RowsOK /\ ChecksHold /\ Marked
  /\ OnePendingPerSide /\ DailyLimitHolds /\ CooldownSpacing

-----------------------------------------------------------------------------
\* The constants of the gate.
LEMMA GateNumbers ==
  /\ DailyLimit \in Nat /\ CooldownTTL \in Nat /\ Lifetime \in Nat
  /\ DayLength \in Nat /\ DayLength > 0
  /\ \A r \in Requests : SymbolOf[r] \in Symbols
BY GateAssumption DEF GateAssumption

\* Days do not go back.
LEMMA DaysGoOn ==
  ASSUME NEW a \in Nat, NEW b \in Nat, a <= b
  PROVE  DayOf(a) \in Nat /\ DayOf(b) \in Nat /\ DayOf(a) <= DayOf(b)
<1>1. DayLength \in Nat /\ DayLength > 0
  BY GateNumbers
<1>2. a \div DayLength \in Nat /\ b \div DayLength \in Nat
  BY <1>1
<1>3. PICK m \in Nat, n \in Nat : m = a \div DayLength /\ n = b \div DayLength
  BY <1>2
<1>4. m * DayLength <= a /\ b < n * DayLength + DayLength
  BY <1>1, <1>3
<1>5. m * DayLength < (n + 1) * DayLength
  BY <1>1, <1>4
<1>6. m < n + 1
  BY <1>1, <1>5
<1> QED
  BY <1>2, <1>3, <1>6 DEF DayOf

\* The steps of a handler that only look: the request moves on, and neither
\* rows nor cooldown change.
Looks(r) ==
  /\ UNCHANGED <<clock, row, cooldown, restarts>>
  /\ Busy(r)
  /\ DOMAIN req' = Requests
  /\ DOMAIN req'[r] = {"pc", "at", "todo", "seen"}
  /\ req'[r].pc \in Steps \ {"new"}
  /\ req'[r].at = req[r].at
  /\ \A q \in Requests : q # r => req'[q] = req[q]

\* Looking keeps the invariant, if what the next place of the handler promises
\* is so.
LEMMA LookKeepsGate ==
  ASSUME GateInv, NEW r \in Requests, Looks(r),
         req[r].pc \in Placed => req'[r].pc \in Placed,
         req'[r].pc # "deciding",
         req'[r].pc \in Placed => row[r].status \in {"queued", "shadow_only"},
         req'[r].pc = "marking" => req'[r].seen = row[r].status,
         req'[r].pc \in Unqueued => NoOther(r)',
         req'[r].pc \in Within => Cardinality(SignalsToday(r)) < DailyLimit /\ Cool(r)
  PROVE  GateInv'
<1>1. Numbers'
  BY DEF GateInv, Numbers, Looks
<1>2. \A q \in Requests : /\ Busy(q)' => Busy(q)
                          /\ req'[q].at = req[q].at
                          /\ req'[q].pc = "new" <=> req[q].pc = "new"
                          /\ q # r => req'[q] = req[q]
  BY DEF Looks, Busy
<1>3. Alone'
  BY <1>2 DEF GateInv, Alone, Looks
<1>4. RowsOK'
  BY <1>2 DEF GateInv, RowsOK, Looks, Side
<1>5. ChecksHold'
  <2>1. ASSUME NEW q \in Requests
        PROVE  /\ (req[q].pc \in Unqueued => NoOther(q))'
               /\ (req[q].pc \in Within => Cardinality(SignalsToday(q)) < DailyLimit /\ Cool(q))'
    <3>1. SignalsToday(q)' = SignalsToday(q) /\ (Cool(q)' <=> Cool(q))
      BY <1>2 DEF SignalsToday, Cool, SameInstrument, Looks
    <3>2. CASE q = r
      BY <3>1, <3>2
    <3>3. CASE q # r
      <4>1. NoOther(q)' <=> NoOther(q)
        BY <1>2, <3>3 DEF NoOther, SameInstrument, Side, Looks
      <4> QED
        BY <1>2, <3>1, <3>3, <4>1 DEF GateInv, ChecksHold
    <3> QED
      BY <3>2, <3>3
  <2> QED
    BY <2>1 DEF ChecksHold
<1>6. Marked'
  BY <1>2 DEF GateInv, Marked, Looks
<1>7. OnePendingPerSide' /\ CooldownSpacing'
  BY <1>2 DEF GateInv, OnePendingPerSide, CooldownSpacing, SameInstrument, Looks
<1>8. DailyLimitHolds'
  BY DEF GateInv, DailyLimitHolds, SameInstrument, Looks
<1> QED
  BY <1>1, <1>3, <1>4, <1>5, <1>6, <1>7, <1>8 DEF GateInv

-----------------------------------------------------------------------------
(* The steps of a handler. *)

\* A request that arrives is the only one under way, and the latest.
LEMMA ArriveKeepsGate ==
  ASSUME GateInv, Store = "sqlite", NEW r \in Requests, Arrive(r)
  PROVE  GateInv'
<1>1. /\ req[r].pc = "new" /\ \A q \in Requests : ~Busy(q)
      /\ UNCHANGED <<clock, row, cooldown, restarts>>
      /\ req' = [req EXCEPT ![r] = [pc |-> "planning", at |-> clock, todo |-> PlansOf[r],
                                    seen |-> "none"]]
  BY DEF Arrive, Turn
<1>2. /\ DOMAIN req' = Requests /\ req'[r].pc = "planning" /\ req'[r].at = clock
      /\ DOMAIN req'[r] = {"pc", "at", "todo", "seen"}
      /\ \A q \in Requests : q # r => req'[q] = req[q]
  BY <1>1 DEF GateInv, Numbers
<1>3. row[r].status = "none"
  BY <1>1 DEF GateInv, RowsOK
<1>4. \A q \in Requests : q # r => ~Busy(q)' /\ req'[q].pc \notin Unqueued \cup Placed
  BY <1>1, <1>2 DEF Busy, Ended, Unqueued, Placed
<1>5. Numbers'
  BY <1>1, <1>2 DEF GateInv, Numbers, Steps
<1>6. Alone'
  BY <1>1, <1>2, <1>4 DEF GateInv, Numbers, Alone
<1>7. RowsOK'
  BY <1>1, <1>2, <1>3, <1>4 DEF GateInv, Numbers, RowsOK, Unqueued, Placed
<1>8. ChecksHold'
  BY <1>2, <1>4 DEF ChecksHold, Unqueued, Within
<1>9. Marked'
  BY <1>1, <1>2, <1>3 DEF GateInv, Marked, Issued
<1>10. OnePendingPerSide' /\ CooldownSpacing'
  BY <1>1, <1>2, <1>3 DEF GateInv, OnePendingPerSide, CooldownSpacing, SameInstrument, Issued
<1>11. DailyLimitHolds'
  BY <1>1 DEF GateInv, DailyLimitHolds, SameInstrument
<1> QED
  BY <1>5, <1>6, <1>7, <1>8, <1>9, <1>10, <1>11 DEF GateInv

\* What a place or the next plan leaves of a request.
LEMMA Moves ==
  ASSUME GateInv, NEW r \in Requests
  PROVE  /\ \A pc : Goto(r, pc) =>
              /\ DOMAIN req' = Requests /\ req'[r].pc = pc /\ req'[r].at = req[r].at
              /\ DOMAIN req'[r] = {"pc", "at", "todo", "seen"}
              /\ req'[r].todo = req[r].todo /\ req'[r].seen = req[r].seen
              /\ \A q \in Requests : q # r => req'[q] = req[q]
         /\ NextPlan(r) =>
              /\ DOMAIN req' = Requests /\ req'[r].pc = "planning" /\ req'[r].at = req[r].at
              /\ DOMAIN req'[r] = {"pc", "at", "todo", "seen"}
              /\ \A q \in Requests : q # r => req'[q] = req[q]
BY DEF GateInv, Numbers, Goto, NextPlan

\* The steps before the candidate is saved, and the one that reads it again,
\* only look.
LEMMA LookingSteps ==
  ASSUME GateInv, NEW r \in Requests,
         Finish(r) \/ CheckPlan(r) \/ CheckPending(r) \/ CheckLimits(r) \/ RereadCommand(r)
  PROVE  GateInv'
<1>1. DOMAIN req = Requests /\ DOMAIN req[r] = {"pc", "at", "todo", "seen"}
  BY DEF GateInv, Numbers
<1>2. CASE /\ UNCHANGED <<clock, row, cooldown, restarts>>
           /\ Busy(r) /\ req[r].pc \notin Placed
           /\ NextPlan(r) \/ Goto(r, "done") \/ Goto(r, "pending")
  <2>1. Looks(r) /\ req'[r].pc \in {"planning", "done", "pending"}
    BY <1>2, Moves DEF Looks, Steps
  <2>2. /\ req'[r].pc \notin Unqueued /\ req'[r].pc \notin Within /\ req'[r].pc \notin Placed
        /\ req'[r].pc # "deciding" /\ req'[r].pc # "marking"
    BY <2>1 DEF Unqueued, Within, Placed
  <2> QED
    BY <1>2, <2>1, <2>2, LookKeepsGate
<1>3. CASE CheckPending(r) /\ Goto(r, "counting")
  <2>1. /\ Looks(r) /\ req[r].pc = "pending" /\ req'[r].pc = "counting"
        /\ req'[r].todo = req[r].todo /\ req'[r].at = req[r].at
    BY <1>3, Moves DEF Looks, Steps, CheckPending, Busy, Ended
  <2>2. ~HasActivePending(r) /\ req[r].at \in Nat /\ \A q \in Requests : row[q].expires \in Nat
    <3>1. ~HasActivePending(r)
      <4>1. CASE HasActivePending(r)
        <5>1. NextPlan(r)
          BY <1>3, <4>1 DEF CheckPending
        <5> QED
          BY <1>3, <2>1, <5>1, Moves
      <4> QED
        BY <4>1
    <3> QED
      BY <3>1 DEF GateInv, Numbers
  <2>3. NoOther(r)
    BY <2>2 DEF HasActivePending, NoOther
  <2>4. NoOther(r)'
    BY <2>1, <2>3, <1>3 DEF NoOther, SameInstrument, Side, CheckPending
  <2> QED
    BY <2>1, <2>4, LookKeepsGate DEF Within, Placed
<1>4. CASE CheckLimits(r) /\ ~NextPlan(r)
  <2>1. /\ Goto(r, "saving") /\ req[r].pc = "counting"
        /\ Cardinality(SignalsToday(r)) < DailyLimit /\ ~CooldownActive(r)
        /\ UNCHANGED <<clock, row, cooldown, restarts>>
    BY <1>4 DEF CheckLimits
  <2>2. Looks(r) /\ req'[r].pc = "saving" /\ req'[r].todo = req[r].todo /\ req'[r].at = req[r].at
    BY <2>1, Moves DEF Looks, Steps, Busy, Ended
  <2>3. Cool(r)
    BY <2>1, GateNumbers DEF GateInv, Numbers, CooldownActive, Cool
  <2>4. NoOther(r)'
    BY <2>1, <2>2 DEF GateInv, ChecksHold, Unqueued, NoOther, SameInstrument, Side
  <2> QED
    BY <2>1, <2>2, <2>3, <2>4, LookKeepsGate DEF Placed
<1>5. CASE RereadCommand(r)
  <2>1. /\ req' = [req EXCEPT ![r] = [@ EXCEPT !.pc = "marking", !.seen = row[r].status]]
        /\ UNCHANGED <<clock, row, cooldown, restarts>> /\ req[r].pc = "rereading"
    BY <1>5 DEF RereadCommand
  <2>2. Looks(r) /\ req'[r].pc = "marking" /\ req'[r].seen = row[r].status
    BY <1>1, <2>1 DEF Looks, Steps, Busy, Ended
  <2>3. row[r].status \in {"queued", "shadow_only"}
    BY <2>1 DEF GateInv, RowsOK, Placed
  <2> QED
    BY <2>2, <2>3, LookKeepsGate DEF Unqueued, Within, Placed
<1> QED
  BY <1>2, <1>3, <1>4, <1>5
  DEF Finish, CheckPlan, CheckPending, CheckLimits, Busy, Ended, Placed

-----------------------------------------------------------------------------
(* The steps that write. *)

\* A candidate is saved as a draft, which counts nowhere, or it is the second
\* of its request and the handler fails.
LEMMA SaveKeepsGate ==
  ASSUME GateInv, NEW r \in Requests, SaveCandidate(r)
  PROVE  GateInv'
<1>1. req[r].pc = "saving" /\ UNCHANGED <<clock, cooldown, restarts>>
  BY DEF SaveCandidate
<1>2. Busy(r) /\ NoOther(r) /\ Cardinality(SignalsToday(r)) < DailyLimit /\ Cool(r)
  BY <1>1 DEF GateInv, ChecksHold, Unqueued, Within, Busy, Ended
<1>3. CASE row[r].status # "none"
  <2>1. UNCHANGED row /\ Goto(r, "failed")
    BY <1>3 DEF SaveCandidate
  <2>2. Looks(r) /\ req'[r].pc = "failed"
    BY <1>1, <1>2, <2>1, Moves DEF Looks, Steps
  <2> QED
    BY <1>1, <2>2, LookKeepsGate DEF Unqueued, Within, Placed
<1>4. CASE row[r].status = "none"
  <2>1. /\ row' = [row EXCEPT ![r] = [status |-> "draft", side |-> Side(r), created |-> clock,
                                      expires |-> req[r].at + Lifetime]]
        /\ Goto(r, "deciding")
    BY <1>4 DEF SaveCandidate
  <2>2. /\ DOMAIN req' = Requests /\ req'[r].pc = "deciding" /\ req'[r].at = req[r].at
        /\ DOMAIN req'[r] = {"pc", "at", "todo", "seen"} /\ req'[r].todo = req[r].todo
        /\ \A q \in Requests : q # r => req'[q] = req[q]
    BY <2>1, Moves
  <2>3. /\ DOMAIN row' = Requests /\ DOMAIN row'[r] = {"status", "side", "created", "expires"}
        /\ row'[r].status = "draft" /\ row'[r].side = Side(r) /\ row'[r].created = clock
        /\ row'[r].expires = req[r].at + Lifetime
        /\ \A q \in Requests : q # r => row'[q] = row[q]
    BY <2>1 DEF GateInv, Numbers
  <2>4. \A q \in Requests : /\ Busy(q)' <=> Busy(q)
                            /\ req'[q].at = req[q].at
                            /\ req'[q].pc = "new" <=> req[q].pc = "new"
                            /\ row'[q].status \in Issued <=> row[q].status \in Issued
                            /\ row'[q].status = "queued" <=> row[q].status = "queued"
                            /\ row[q].status \in Issued => row'[q] = row[q] /\ q # r
    BY <1>1, <1>4, <2>2, <2>3 DEF Busy, Ended, Issued
  <2>5. Numbers'
    BY <1>1, <2>2, <2>3, GateNumbers DEF GateInv, Numbers, Steps
  <2>6. Alone'
    BY <1>1, <2>4 DEF GateInv, Alone
  <2>7. RowsOK'
    <3>1. \A q \in Requests : /\ req'[q].pc = "new" => row'[q].status = "none"
                              /\ row'[q].created <= clock'
      BY <1>1, <2>2, <2>3 DEF GateInv, Numbers, RowsOK
    <3>2. \A p, q \in Requests :
            Busy(p)' /\ q # p /\ row'[q].status \in Issued => row'[q].created <= req'[p].at
      BY <2>4 DEF GateInv, RowsOK
    <3>3. ASSUME NEW q \in Requests
          PROVE  /\ req'[q].pc = "deciding" => /\ row'[q].status = "draft"
                                               /\ row'[q].side = Side(q)'
                                               /\ req'[q].at <= row'[q].created
                 /\ req'[q].pc \in Placed => row'[q].status \in {"queued", "shadow_only"}
                 /\ req'[q].pc = "marking" => req'[q].seen = row'[q].status
      <4>1. CASE q = r
        BY <1>1, <2>2, <2>3, <4>1 DEF GateInv, Alone, Side, Placed
      <4>2. CASE q # r
        BY <2>2, <2>3, <4>2 DEF GateInv, RowsOK, Side
      <4> QED
        BY <4>1, <4>2
    <3> QED
      BY <3>1, <3>2, <3>3 DEF RowsOK
  <2>8. ChecksHold'
    <3>1. \A q \in Requests : req'[q].pc \in Unqueued \cup Within => q = r
      BY <1>2, <2>2, <2>4 DEF GateInv, Alone, Busy, Ended, Unqueued, Within
    <3>2. NoOther(r)'
      BY <1>2, <2>2, <2>3 DEF NoOther, SameInstrument, Side
    <3>3. SignalsToday(r)' = SignalsToday(r)
      BY <2>2, <2>4 DEF SignalsToday, SameInstrument
    <3>4. Cool(r)'
      BY <1>1, <1>2, <2>2 DEF Cool
    <3> QED
      BY <1>2, <3>1, <3>2, <3>3, <3>4 DEF ChecksHold
  <2>9. Marked'
    BY <1>1, <2>2, <2>4 DEF GateInv, Marked, Placed
  <2>10. OnePendingPerSide' /\ CooldownSpacing'
    BY <1>1, <2>4 DEF GateInv, OnePendingPerSide, CooldownSpacing, SameInstrument, Issued
  <2>11. DailyLimitHolds'
    <3> SUFFICES ASSUME NEW q \in Requests, row'[q].status \in Issued
                 PROVE  Cardinality({p \in Requests : /\ SameInstrument(q, p)
                                       /\ row'[p].status \in Issued
                                       /\ DayOf(row'[p].created) = DayOf(row'[q].created)})
                          <= DailyLimit
      BY DEF DailyLimitHolds, SameInstrument
    <3>1. {p \in Requests : /\ SameInstrument(q, p) /\ row'[p].status \in Issued
                            /\ DayOf(row'[p].created) = DayOf(row'[q].created)}
          = {p \in Requests : /\ SameInstrument(q, p) /\ row[p].status \in Issued
                              /\ DayOf(row[p].created) = DayOf(row[q].created)}
      BY <2>4
    <3> QED
      BY <2>4, <3>1 DEF GateInv, DailyLimitHolds
  <2> QED
    BY <2>5, <2>6, <2>7, <2>8, <2>9, <2>10, <2>11 DEF GateInv
<1> QED
  BY <1>3, <1>4

\* A decided candidate is queued only in cutover mode; then no other command
\* of its side is in the queue, its day has room, and its symbol is cool: what
\* the checks found is still so.
LEMMA DecideKeepsGate ==
  ASSUME GateInv, IsFiniteSet(Requests), NEW r \in Requests, DecideCandidate(r)
  PROVE  GateInv'
<1>1. /\ req[r].pc = "deciding" /\ UNCHANGED <<clock, cooldown, restarts>>
      /\ Goto(r, "rereading")
      /\ row' = [row EXCEPT ![r] = [@ EXCEPT !.status =
                   IF Mode[AccountOf[r]] = "cutover" THEN "queued" ELSE "shadow_only"]]
  BY DEF DecideCandidate
<1>2. /\ Busy(r) /\ NoOther(r) /\ Cardinality(SignalsToday(r)) < DailyLimit /\ Cool(r)
      /\ row[r].status = "draft" /\ row[r].side = Side(r) /\ req[r].at <= row[r].created
      /\ row[r].created \in Nat /\ req[r].at \in Nat
  BY <1>1 DEF GateInv, Numbers, ChecksHold, RowsOK, Unqueued, Within, Busy, Ended
<1>3. /\ DOMAIN req' = Requests /\ req'[r].pc = "rereading" /\ req'[r].at = req[r].at
      /\ DOMAIN req'[r] = {"pc", "at", "todo", "seen"}
      /\ \A q \in Requests : q # r => req'[q] = req[q]
  BY <1>1, Moves
<1>4. /\ DOMAIN row' = Requests /\ DOMAIN row'[r] = {"status", "side", "created", "expires"}
      /\ row'[r].status \in {"queued", "shadow_only"}
      /\ row'[r].side = row[r].side /\ row'[r].created = row[r].created
      /\ row'[r].expires = row[r].expires
      /\ \A q \in Requests : q # r => row'[q] = row[q]
  BY <1>1 DEF GateInv, Numbers
<1>5. \A q \in Requests : /\ Busy(q)' <=> Busy(q)
                          /\ req'[q].at = req[q].at
                          /\ req'[q].pc = "new" <=> req[q].pc = "new"
                          /\ q # r => ~Busy(q)
                          /\ Busy(q) => q = r
  BY <1>1, <1>2, <1>3 DEF GateInv, Alone, Busy, Ended
<1>6. Numbers'
  BY <1>1, <1>3, <1>4 DEF GateInv, Numbers, Steps
<1>7. Alone'
  BY <1>1, <1>5 DEF GateInv, Alone
<1>8. RowsOK'
  <2>1. \A q \in Requests : /\ req'[q].pc = "new" => row'[q].status = "none"
                            /\ row'[q].created <= clock'
    BY <1>1, <1>3, <1>4 DEF GateInv, Numbers, RowsOK
  <2>2. \A p, q \in Requests :
          Busy(p)' /\ q # p /\ row'[q].status \in Issued => row'[q].created <= req'[p].at
    BY <1>2, <1>4, <1>5 DEF GateInv, RowsOK
  <2>3. \A q \in Requests :
          /\ req'[q].pc = "deciding" => /\ row'[q].status = "draft"
                                        /\ row'[q].side = Side(q)'
                                        /\ req'[q].at <= row'[q].created
          /\ req'[q].pc \in Placed => row'[q].status \in {"queued", "shadow_only"}
          /\ req'[q].pc = "marking" => req'[q].seen = row'[q].status
    BY <1>3, <1>4 DEF GateInv, RowsOK, Side
  <2> QED
    BY <2>1, <2>2, <2>3 DEF RowsOK
<1>9. ChecksHold'
  <2>1. \A q \in Requests : req'[q].pc \notin Unqueued /\ req'[q].pc \notin Within
    BY <1>3, <1>5 DEF Busy, Ended, Unqueued, Within
  <2> QED
    BY <2>1 DEF ChecksHold
<1>10. Marked'
  BY <1>1, <1>3, <1>4 DEF GateInv, Marked, Placed
<1>11. CASE row'[r].status = "shadow_only"
  <2>1. \A q \in Requests : /\ row'[q].status \in Issued <=> row[q].status \in Issued
                            /\ row'[q].status = "queued" <=> row[q].status = "queued"
                            /\ row[q].status \in Issued => row'[q] = row[q] /\ q # r
    BY <1>2, <1>4, <1>11 DEF Issued
  <2>2. OnePendingPerSide' /\ CooldownSpacing'
    BY <1>1, <1>5, <2>1 DEF GateInv, OnePendingPerSide, CooldownSpacing, SameInstrument, Issued
  <2>3. DailyLimitHolds'
    BY <1>2, <1>4, <2>1 DEF GateInv, DailyLimitHolds, SameInstrument
  <2> QED
    BY <1>6, <1>7, <1>8, <1>9, <1>10, <2>2, <2>3 DEF GateInv
<1>12. CASE row'[r].status = "queued"
  <2>1. OnePendingPerSide'
    <3> SUFFICES ASSUME NEW p \in Requests, NEW q \in Requests, p # q, SameInstrument(p, q),
                        row'[p].status = "queued", row'[q].status = "queued",
                        row'[p].side = row'[q].side
                 PROVE  row'[p].expires <= req'[q].at \/ row'[q].expires <= req'[p].at
      BY DEF OnePendingPerSide, SameInstrument
    <3>1. CASE p = r
      BY <1>2, <1>4, <1>5, <3>1 DEF NoOther
    <3>2. CASE q = r
      BY <1>2, <1>4, <1>5, <3>2 DEF NoOther, SameInstrument
    <3>3. CASE p # r /\ q # r
      BY <1>4, <1>5, <3>3 DEF GateInv, OnePendingPerSide
    <3> QED
      BY <3>1, <3>2, <3>3
  <2>2. CooldownSpacing'
    <3> SUFFICES ASSUME restarts = 0, NEW p \in Requests, NEW q \in Requests, p # q,
                        SymbolOf[p] = SymbolOf[q],
                        row'[p].status \in Issued, row'[q].status \in Issued,
                        req[p].at <= req[q].at
                 PROVE  req[p].at + CooldownTTL <= req[q].at
      BY <1>1, <1>5 DEF CooldownSpacing
    <3>1. ASSUME NEW o \in Requests, o # r, row'[o].status \in Issued, SymbolOf[o] = SymbolOf[r]
          PROVE  req[o].at + CooldownTTL <= req[r].at
      <4>1. row[o].status \in Issued /\ req[o].pc \notin Placed
        BY <1>4, <1>5, <3>1 DEF Busy, Ended, Placed
      <4>2. PICK t \in cooldown[SymbolOf[r]] : req[o].at <= t
        BY <3>1, <4>1 DEF GateInv, Marked
      <4>3. t \in Nat /\ t + CooldownTTL <= req[r].at /\ req[o].at \in Nat
        BY <1>2, <4>2, GateNumbers DEF GateInv, Numbers, Cool
      <4> QED
        BY <1>2, <4>2, <4>3, GateNumbers
    <3>2. CASE q = r
      BY <3>1, <3>2
    <3>3. CASE p = r
      <4>1. req[q].at + CooldownTTL <= req[r].at /\ req[q].at \in Nat
        BY <3>1, <3>3 DEF GateInv, Numbers
      <4> QED
        BY <1>2, <3>3, <4>1, GateNumbers
    <3>4. CASE p # r /\ q # r
      BY <1>4, <3>4 DEF GateInv, CooldownSpacing
    <3> QED
      BY <3>2, <3>3, <3>4
  <2>3. DailyLimitHolds'
    <3> SUFFICES ASSUME NEW q \in Requests, row'[q].status \in Issued
                 PROVE  Cardinality({p \in Requests : /\ SameInstrument(q, p)
                                       /\ row'[p].status \in Issued
                                       /\ DayOf(row'[p].created) = DayOf(row'[q].created)})
                          <= DailyLimit
      BY DEF DailyLimitHolds, SameInstrument
    <3> DEFINE today == {p \in Requests : /\ SameInstrument(q, p)
                                          /\ row'[p].status \in Issued
                                          /\ DayOf(row'[p].created) = DayOf(row'[q].created)}
               before == {p \in Requests : /\ SameInstrument(q, p)
                                           /\ row[p].status \in Issued
                                           /\ DayOf(row[p].created) = DayOf(row[q].created)}
    <3>1. CASE r \notin today
      <4>1. q # r
        BY <3>1 DEF SameInstrument
      <4>2. today = before /\ row[q].status \in Issued
        BY <1>2, <1>4, <3>1, <4>1 DEF Issued
      <4>3. Cardinality(before) <= DailyLimit
        BY <4>2 DEF GateInv, DailyLimitHolds
      <4> QED
        BY <4>2, <4>3
    <3>2. CASE r \in today
      <4>1. \A p \in today : SameInstrument(r, p) /\ DayOf(row'[p].created) = DayOf(row[r].created)
        BY <1>4, <3>2 DEF SameInstrument
      <4>2. CASE DayOf(row[r].created) = DayOf(req[r].at)
        <5>1. today \subseteq SignalsToday(r) \cup {r}
          BY <1>4, <4>1, <4>2 DEF SignalsToday
        <5>2. IsFiniteSet(SignalsToday(r)) /\ Cardinality(SignalsToday(r)) \in Nat
          <6>1. SignalsToday(r) \subseteq Requests
            BY DEF SignalsToday
          <6> QED
            BY <6>1, FS_Subset, FS_CardinalityType
        <5>3. /\ IsFiniteSet(SignalsToday(r) \cup {r})
              /\ Cardinality(SignalsToday(r) \cup {r}) <= Cardinality(SignalsToday(r)) + 1
              /\ Cardinality(SignalsToday(r) \cup {r}) \in Nat
          <6> DEFINE S == SignalsToday(r)
          <6> HIDE DEF S
          <6>1. IsFiniteSet(S) /\ Cardinality(S) \in Nat
            BY <5>2 DEF S
          <6>2. /\ IsFiniteSet(S \cup {r})
                /\ Cardinality(S \cup {r}) = IF r \in S THEN Cardinality(S) ELSE Cardinality(S) + 1
            BY <6>1, FS_AddElement
          <6>3. Cardinality(S \cup {r}) \in Nat /\ Cardinality(S \cup {r}) <= Cardinality(S) + 1
            BY <6>1, <6>2
          <6> QED
            BY <6>2, <6>3 DEF S
        <5>4. Cardinality(today) <= Cardinality(SignalsToday(r) \cup {r}) /\ Cardinality(today) \in Nat
          BY <5>1, <5>3, FS_Subset, FS_CardinalityType
        <5> QED
          BY <1>2, <5>2, <5>3, <5>4, GateNumbers
      <4>3. CASE DayOf(row[r].created) # DayOf(req[r].at)
        <5>1. ASSUME NEW p \in today, p # r PROVE FALSE
          <6>1. row[p].status \in Issued /\ row'[p].created = row[p].created /\ row[p].created \in Nat
            BY <1>4, <5>1 DEF GateInv, Numbers
          <6>2. row[p].created <= req[r].at
            BY <1>2, <5>1, <6>1 DEF GateInv, RowsOK
          <6>3. /\ DayOf(row[p].created) <= DayOf(req[r].at)
                /\ DayOf(row[p].created) \in Nat /\ DayOf(req[r].at) \in Nat
            BY <1>2, <6>1, <6>2, DaysGoOn
          <6>4. DayOf(req[r].at) <= DayOf(row[r].created) /\ DayOf(row[r].created) \in Nat
            BY <1>2, DaysGoOn
          <6>5. DayOf(row[p].created) = DayOf(row[r].created)
            BY <4>1, <5>1, <6>1
          <6> QED
            BY <4>3, <6>3, <6>4, <6>5
        <5>2. today = {r}
          BY <3>2, <5>1
        <5>3. Cardinality(today) = 1
          BY <5>2, FS_Singleton
        <5>4. Cardinality(SignalsToday(r)) \in Nat
          <6>1. SignalsToday(r) \subseteq Requests
            BY DEF SignalsToday
          <6> QED
            BY <6>1, FS_Subset, FS_CardinalityType
        <5> QED
          BY <1>2, <5>3, <5>4, GateNumbers
      <4> QED
        BY <4>2, <4>3
    <3> QED
      BY <3>1, <3>2
  <2> QED
    BY <1>6, <1>7, <1>8, <1>9, <1>10, <2>1, <2>2, <2>3 DEF GateInv
<1> QED
  BY <1>4, <1>11, <1>12

\* The mark is the latest request of the symbol, so it stands for all.
LEMMA MarkKeepsGate ==
  ASSUME GateInv, NEW r \in Requests, MarkCooldown(r)
  PROVE  GateInv'
<1>1. /\ req[r].pc = "marking" /\ NextPlan(r) /\ UNCHANGED <<clock, row, restarts>>
      /\ cooldown' = IF req[r].seen = "queued"
                       THEN [cooldown EXCEPT ![SymbolOf[r]] = {req[r].at}] ELSE cooldown
  BY DEF MarkCooldown
<1>2. /\ DOMAIN req' = Requests /\ req'[r].pc = "planning" /\ req'[r].at = req[r].at
      /\ DOMAIN req'[r] = {"pc", "at", "todo", "seen"}
      /\ \A q \in Requests : q # r => req'[q] = req[q]
  BY <1>1, Moves
<1>3. Busy(r) /\ req[r].at \in Nat /\ SymbolOf[r] \in Symbols /\ DOMAIN cooldown = Symbols
  BY <1>1, GateNumbers DEF GateInv, Numbers, Busy, Ended
<1>4. /\ DOMAIN cooldown' = Symbols
      /\ \A s \in Symbols : \/ cooldown'[s] = cooldown[s]
                            \/ s = SymbolOf[r] /\ cooldown'[s] = {req[r].at}
      /\ req[r].seen = "queued" => cooldown'[SymbolOf[r]] = {req[r].at}
  BY <1>1, <1>3
<1>5. \A q \in Requests : /\ Busy(q)' <=> Busy(q)
                          /\ req'[q].at = req[q].at
                          /\ req'[q].pc = "new" <=> req[q].pc = "new"
                          /\ Busy(q) => q = r
  BY <1>1, <1>2, <1>3 DEF GateInv, Alone, Busy, Ended
<1>6. Numbers'
  BY <1>1, <1>2, <1>3, <1>4 DEF GateInv, Numbers, Steps
<1>7. Alone'
  BY <1>1, <1>5 DEF GateInv, Alone
<1>8. RowsOK'
  BY <1>1, <1>2, <1>5 DEF GateInv, RowsOK, Side, Placed
<1>9. ChecksHold'
  <2>1. \A q \in Requests : req'[q].pc \notin Unqueued /\ req'[q].pc \notin Within
    BY <1>2, <1>5 DEF Busy, Ended, Unqueued, Within
  <2> QED
    BY <2>1 DEF ChecksHold
<1>10. Marked'
  <2> SUFFICES ASSUME restarts = 0, NEW q \in Requests, row[q].status \in Issued,
                      req'[q].pc \notin Placed
               PROVE  \E t \in cooldown'[SymbolOf[q]] : req[q].at <= t
    BY <1>1, <1>5 DEF Marked
  <2>1. req[q].pc # "new" /\ req[q].at <= req[r].at /\ SymbolOf[q] \in Symbols
    BY <1>3, GateNumbers DEF GateInv, RowsOK, Alone, Issued
  <2>2. CASE q = r
    <3>1. req[r].seen = "queued"
      BY <1>1, <2>2 DEF GateInv, RowsOK, Placed, Issued
    <3> QED
      BY <1>3, <1>4, <2>2, <3>1
  <2>3. CASE q # r
    <3>1. \E t \in cooldown[SymbolOf[q]] : req[q].at <= t
      BY <1>2, <2>3 DEF GateInv, Marked
    <3> QED
      BY <1>3, <1>4, <2>1, <3>1
  <2> QED
    BY <2>2, <2>3
<1>11. OnePendingPerSide' /\ CooldownSpacing'
  BY <1>1, <1>5 DEF GateInv, OnePendingPerSide, CooldownSpacing, SameInstrument
<1>12. DailyLimitHolds'
  BY <1>1 DEF GateInv, DailyLimitHolds, SameInstrument
<1> QED
  BY <1>6, <1>7, <1>8, <1>9, <1>10, <1>11, <1>12 DEF GateInv

\* A poll happens while no handler runs, and what it takes stays issued.
LEMMA PollKeepsGate ==
  ASSUME GateInv, Store = "sqlite", NEW r \in Requests, PollCommand(r)
  PROVE  GateInv'
<1>1. /\ \A q \in Requests : ~Busy(q)
      /\ row[r].status = "queued" /\ UNCHANGED <<clock, req, cooldown, restarts>>
      /\ row' = [row EXCEPT ![r] = [@ EXCEPT !.status =
                   IF clock < row[r].expires THEN "delivered" ELSE "failed"]]
  BY DEF PollCommand, Turn
<1>2. /\ DOMAIN row' = Requests /\ DOMAIN row'[r] = {"status", "side", "created", "expires"}
      /\ row'[r].status \in {"delivered", "failed"}
      /\ row'[r].created = row[r].created /\ row'[r].expires = row[r].expires
      /\ \A q \in Requests : q # r => row'[q] = row[q]
  BY <1>1 DEF GateInv, Numbers
<1>3. \A q \in Requests : /\ row'[q].status \in Issued <=> row[q].status \in Issued
                          /\ row'[q].created = row[q].created
                          /\ row'[q].status = "queued" => row'[q] = row[q]
                          /\ row'[q].status = "none" <=> row[q].status = "none"
  BY <1>1, <1>2 DEF Issued
<1>4. \A q \in Requests : /\ req[q].pc \notin Unqueued /\ req[q].pc \notin Within
                          /\ req[q].pc \notin Placed
                          /\ req[q].pc # "deciding" /\ req[q].pc # "marking"
  BY <1>1 DEF Busy, Ended, Unqueued, Within, Placed
<1>5. Numbers'
  BY <1>1, <1>2 DEF GateInv, Numbers
<1>6. Alone'
  BY <1>1 DEF GateInv, Alone, Busy
<1>7. RowsOK'
  BY <1>1, <1>3, <1>4 DEF GateInv, RowsOK, Busy
<1>8. ChecksHold' /\ Marked'
  BY <1>1, <1>3, <1>4 DEF GateInv, ChecksHold, Marked
<1>9. OnePendingPerSide' /\ CooldownSpacing'
  BY <1>1, <1>3 DEF GateInv, OnePendingPerSide, CooldownSpacing, SameInstrument
<1>10. DailyLimitHolds'
  <2> SUFFICES ASSUME NEW q \in Requests, row'[q].status \in Issued
               PROVE  Cardinality({p \in Requests : /\ SameInstrument(q, p)
                                     /\ row'[p].status \in Issued
                                     /\ DayOf(row'[p].created) = DayOf(row'[q].created)})
                        <= DailyLimit
    BY DEF DailyLimitHolds, SameInstrument
  <2>1. {p \in Requests : /\ SameInstrument(q, p) /\ row'[p].status \in Issued
                          /\ DayOf(row'[p].created) = DayOf(row'[q].created)}
        = {p \in Requests : /\ SameInstrument(q, p) /\ row[p].status \in Issued
                            /\ DayOf(row[p].created) = DayOf(row[q].created)}
    BY <1>3
  <2> QED
    BY <1>3, <2>1 DEF GateInv, DailyLimitHolds
<1> QED
  BY <1>5, <1>6, <1>7, <1>8, <1>9, <1>10 DEF GateInv

\* Time changes nothing the gate has read.
LEMMA TickKeepsGate ==
  ASSUME GateInv, Tick \/ UNCHANGED vars
  PROVE  GateInv'
<1>1. UNCHANGED <<req, row, cooldown, restarts>> /\ clock \in Nat /\ clock' \in Nat /\ clock <= clock'
  BY DEF GateInv, Numbers, Tick, vars
<1>2. Numbers' /\ Alone' /\ RowsOK'
  BY <1>1 DEF GateInv, Numbers, Alone, RowsOK, Busy, Side
<1>3. ChecksHold' /\ Marked'
  BY <1>1 DEF GateInv, ChecksHold, Marked, NoOther, Cool, SignalsToday, SameInstrument, Side
<1>4. OnePendingPerSide' /\ CooldownSpacing' /\ DailyLimitHolds'
  BY <1>1 DEF GateInv, OnePendingPerSide, CooldownSpacing, DailyLimitHolds, SameInstrument
<1> QED
  BY <1>2, <1>3, <1>4 DEF GateInv

\* A restart cuts the handler and forgets the cooldown, and with it what the
\* cooldown promised; the rows count as before.
LEMMA RestartKeepsGate ==
  ASSUME GateInv, Restart
  PROVE  GateInv'
<1>1. /\ UNCHANGED <<clock, row>> /\ restarts' = restarts + 1 /\ restarts \in Nat
      /\ cooldown' = [s \in Symbols |-> {}]
      /\ req' = [r \in Requests |-> IF Busy(r) THEN [req[r] EXCEPT !.pc = "cut"] ELSE req[r]]
  BY DEF GateInv, Numbers, Restart
<1>2. \A q \in Requests : /\ ~Busy(q)'
                          /\ DOMAIN req'[q] = {"pc", "at", "todo", "seen"}
                          /\ req'[q].at = req[q].at /\ req'[q].pc \in Steps
                          /\ req'[q].pc = "new" <=> req[q].pc = "new"
  BY <1>1 DEF GateInv, Numbers, Busy, Ended, Steps
<1>3. \A q \in Requests : /\ req'[q].pc \notin Unqueued /\ req'[q].pc \notin Within
                          /\ req'[q].pc \notin Placed
                          /\ req'[q].pc # "deciding" /\ req'[q].pc # "marking"
  BY <1>2 DEF Busy, Ended, Unqueued, Within, Placed
<1>4. Numbers'
  BY <1>1, <1>2 DEF GateInv, Numbers
<1>5. Alone' /\ RowsOK'
  BY <1>1, <1>2, <1>3 DEF GateInv, Alone, RowsOK
<1>6. restarts' # 0
  BY <1>1
<1>7. ChecksHold' /\ Marked' /\ CooldownSpacing'
  BY <1>3, <1>6 DEF ChecksHold, Marked, CooldownSpacing
<1>8. OnePendingPerSide' /\ DailyLimitHolds'
  BY <1>1, <1>2 DEF GateInv, OnePendingPerSide, DailyLimitHolds, SameInstrument
<1> QED
  BY <1>4, <1>5, <1>7, <1>8 DEF GateInv

-----------------------------------------------------------------------------
(* The theorems. *)

\* What the checks found holds until the decision, in every behaviour.
LEMMA GateInvariant ==
  ASSUME Store = "sqlite", IsFiniteSet(Requests)
  PROVE  Spec => []GateInv
<1>1. Init => GateInv
  <2> SUFFICES ASSUME Init PROVE GateInv
    OBVIOUS
  <2>1. \A r \in Requests : req[r] = [pc |-> "new", at |-> 0, todo |-> << >>, seen |-> "none"]
                            /\ row[r] = NoRow /\ ~Busy(r)
    BY DEF Init, Busy
  <2>2. Numbers /\ Alone /\ RowsOK /\ ChecksHold /\ Marked
    BY <2>1 DEF Init, Numbers, Alone, RowsOK, ChecksHold, Marked, NoRow, Steps, Issued, Placed,
                Unqueued, Within
  <2>3. OnePendingPerSide /\ DailyLimitHolds /\ CooldownSpacing
    BY <2>1 DEF OnePendingPerSide, DailyLimitHolds, CooldownSpacing, NoRow, Issued
  <2> QED
    BY <2>2, <2>3 DEF GateInv
<1>2. GateInv /\ [Next]_vars => GateInv'
  <2> SUFFICES ASSUME GateInv, [Next]_vars PROVE GateInv'
    OBVIOUS
  <2>1. ASSUME NEW r \in Requests, Handle(r) PROVE GateInv'
    BY <2>1, ArriveKeepsGate, LookingSteps, SaveKeepsGate, DecideKeepsGate, MarkKeepsGate DEF Handle
  <2> QED
    BY <2>1, PollKeepsGate, TickKeepsGate, RestartKeepsGate DEF Next
<1> QED
  BY <1>1, <1>2, PTL DEF Spec

\* Against SQLite no account issues more than the limit of AI signals for a
\* symbol on one day, for any number of requests and restarts, and although a
\* handler may begin on one day and save on the next.
THEOREM DailyLimitIsKept ==
  ASSUME Store = "sqlite", IsFiniteSet(Requests)
  PROVE  Spec => []DailyLimitHolds
<1>1. GateInv => DailyLimitHolds
  BY DEF GateInv
<1> QED
  BY <1>1, GateInvariant, PTL

\* Against SQLite the queue never holds two unexpired commands of one account,
\* symbol and side.
THEOREM PendingIsUnique ==
  ASSUME Store = "sqlite", IsFiniteSet(Requests)
  PROVE  Spec => []OnePendingPerSide
<1>1. GateInv => OnePendingPerSide
  BY DEF GateInv
<1> QED
  BY <1>1, GateInvariant, PTL

\* Against SQLite two issued signals of a symbol were requested a cooldown
\* apart, although only the last one is remembered, until a restart forgets it.
THEOREM CooldownIsKept ==
  ASSUME Store = "sqlite", IsFiniteSet(Requests)
  PROVE  Spec => []CooldownSpacing
<1>1. GateInv => CooldownSpacing
  BY DEF GateInv
<1> QED
  BY <1>1, GateInvariant, PTL
=============================================================================
