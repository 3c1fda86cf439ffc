-------------------------- MODULE ArbitrationProofs --------------------------
(***************************************************************************)
(* Arbitration against SQLite, for any signals, accounts, scores, waits    *)
(* and verdicts: a submission acts on the verdict of its own signal, and   *)
(* an expiry run undoes no verdict.                                        *)
(***************************************************************************)
EXTENDS Arbitration, WellFoundedInduction, TLAPS

\* A submission between saving its signal and waiting.
Mid(s) == sub[s].pc \in {"inserting", "finding"}

\* Such a submission is alone, and no expiry run is at work.
Alone ==
  /\ \A s, t \in Signals : Mid(s) /\ Mid(t) => s = t
  /\ \A s \in Signals : Mid(s) => stale = {}

\* The ids number the rows, and a signal has one row.
Numbered ==
  /\ \A i \in DOMAIN rows : rows[i].id = i
  /\ \A i, j \in DOMAIN rows : rows[i].signal = rows[j].signal => i = j
  /\ \A i \in DOMAIN rows : sub[rows[i].signal].pc \notin {"new", "inserting"}
                            /\ sub[rows[i].signal].created = rows[i].created

\* A submission numbers its signal after all others and finds it last.
Latest ==
  \A s \in Signals :
    /\ sub[s].created <= clock
    /\ Mid(s) => \A i \in DOMAIN rows : rows[i].created <= sub[s].created
    /\ sub[s].pc = "inserting" => sub[s].id = Len(rows) + 1
    /\ sub[s].pc = "finding" => /\ Len(rows) > 0
                                /\ rows[Len(rows)].signal = s
                                /\ rows[Len(rows)].status = "pending"

\* Who waits, waits for a row of the account, and without a twin for the own one.
Watched ==
  \A s \in Signals :
    sub[s].pc = "waiting" =>
      /\ sub[s].id \in DOMAIN rows
      /\ OfAccount(sub[s].id, AccountOf[s])
      /\ Twin(s) \/ rows[sub[s].id].signal = s

\* A verdict in a row was given to its signal, and nobody has acted before the end.
Verdicts ==
  /\ \A i \in DOMAIN rows :
       rows[i].status \in {"approved", "rejected"} => Given(rows[i].signal, rows[i].status)
  /\ \A s \in Signals : sub[s].pc # "ended" => sub[s].status = "none" /\ ~sub[s].execute

\* An expiry run has before it only rows that are still pending.
StillPending == \A i \in stale : rows[i].status = "pending"

ArbitrationInv ==
  /\ TypeOK /\ Alone /\ Numbered /\ Latest /\ Watched /\ Verdicts /\ StillPending
  /\ OwnVerdictOnly

-----------------------------------------------------------------------------
(* Choices. *)

\* A set of natural numbers has a first element.
LEMMA FirstOfSome ==
  ASSUME NEW S, S \subseteq Nat, S # {}
  PROVE  FirstIn(S) \in S /\ \A j \in S : FirstIn(S) <= j
<1> DEFINE R == OpToRel(<, Nat)
<1>1. IsWellFoundedOn(R, Nat)
  BY NatLessThanWellFounded
<1>2. \A x, y \in S : <<y, x>> \in R <=> y < x
  BY DEF OpToRel
<1> HIDE DEF R
<1>3. PICK x \in S : \A y \in S : ~(<<y, x>> \in R)
  BY <1>1, WFMin
<1>4. \A y \in S : ~(y < x)
  BY <1>2, <1>3
<1>5. \A y \in S : x <= y
  BY <1>4
<1>6. QED
  BY <1>5 DEF FirstIn

LEMMA FirstOfOne == ASSUME NEW i \in Nat PROVE FirstIn({i}) = i
BY FirstOfSome

\* Against SQLite the next number is one more than the number of rows.
LEMMA NextNumber ==
  ASSUME Store = "sqlite", TypeOK, Numbered, NEW s \in Signals
  PROVE  NextId(s) = Len(rows) + 1
<1> DEFINE ids == {rows[i].id : i \in {j \in DOMAIN rows :
                      Store = "sqlite" \/ OfAccount(j, AccountOf[s])}}
<1>1. Len(rows) \in Nat /\ DOMAIN rows = 1 .. Len(rows)
  BY DEF TypeOK
<1>2. ids = 1 .. Len(rows)
  BY <1>1 DEF Numbered
<1>3. MaxId(1 .. Len(rows)) = Len(rows)
  BY <1>1 DEF MaxId
<1>4. NextId(s) = 1 + MaxId(ids)
  BY DEF NextId
<1> HIDE DEF ids
<1>5. QED
  BY <1>1, <1>2, <1>3, <1>4

\* The row of a number.
LEMMA RowOfNumber ==
  ASSUME TypeOK, Numbered, NEW s \in Signals, sub[s].id \in DOMAIN rows,
         OfAccount(sub[s].id, AccountOf[s])
  PROVE  RowOf(s) = sub[s].id
<1>1. sub[s].id \in Nat
  BY DEF TypeOK, Submission
<1>2. {i \in DOMAIN rows : OfAccount(i, AccountOf[s]) /\ rows[i].id = sub[s].id} = {sub[s].id}
  BY DEF Numbered
<1>3. QED
  BY <1>1, <1>2, FirstOfOne DEF RowOf

\* What a submission takes for its own is a pending row of its account, and
\* without a twin the row it just saved.
LEMMA FoundRow ==
  ASSUME ArbitrationInv, NEW s \in Signals, sub[s].pc = "finding"
  PROVE  /\ FreshPending(s) \in DOMAIN rows
         /\ OfAccount(FreshPending(s), AccountOf[s])
         /\ Twin(s) \/ rows[FreshPending(s)].signal = s
         /\ Pendings(s) # {}
<1> USE DEF ArbitrationInv
<1> DEFINE n == Len(rows)
           newest == {i \in Pendings(s) : \A j \in Pendings(s) : rows[j].created <= rows[i].created}
           exact == {i \in Pendings(s) : rows[i].created = clock}
           sought == IF exact # {} THEN exact ELSE newest
<1>1. n \in Nat \ {0} /\ DOMAIN rows = 1 .. n /\ n \in DOMAIN rows
  BY DEF TypeOK, Latest
<1>2. /\ rows[n].signal = s /\ rows[n].status = "pending"
      /\ rows[n].created = sub[s].created
  BY <1>1 DEF Latest, Numbered
<1>3. n \in Pendings(s)
  BY <1>1, <1>2 DEF Pendings, OfAccount
<1>4. clock \in Nat /\ sub[s].created \in Nat /\ \A i \in DOMAIN rows : rows[i].created \in Nat
  <2>1. MaxTime \in Nat
    BY ArbitrationAssumption DEF ArbitrationAssumption
  <2>2. clock \in 0 .. MaxTime /\ sub[s].created \in 0 .. MaxTime
    BY DEF TypeOK, Submission
  <2>3. \A i \in DOMAIN rows : rows[i] \in Row
    BY DEF TypeOK
  <2>4. \A i \in DOMAIN rows : rows[i].created \in 0 .. MaxTime
    BY <2>3 DEF Row
  <2>5. QED
    BY <2>1, <2>2, <2>4
<1>5. \A i \in DOMAIN rows : rows[i].created <= rows[n].created
  BY <1>2 DEF Latest, Mid
<1>6. n \in newest
  BY <1>3, <1>5 DEF Pendings
<1>7. sought \subseteq Pendings(s) /\ sought # {} /\ Pendings(s) \subseteq DOMAIN rows
  BY <1>6 DEF Pendings
<1>8. FreshPending(s) \in sought
  <2>1. sought \subseteq Nat
    BY <1>1, <1>7
  <2> HIDE DEF sought
  <2>2. FirstIn(sought) \in sought
    BY <1>7, <2>1, FirstOfSome
  <2>3. QED
    BY <2>2 DEF FreshPending, sought
<1>9. ASSUME ~Twin(s) PROVE rows[FreshPending(s)].signal = s
  <2>1. \A i \in DOMAIN rows :
          OfAccount(i, AccountOf[s]) /\ rows[i].created = rows[n].created => rows[i].signal = s
    BY <1>2, <1>9 DEF Twin
  <2>2. \A i \in newest : rows[i].created = rows[n].created
    BY <1>1, <1>3, <1>4, <1>5 DEF Pendings
  <2>3. \A i \in exact : rows[i].created = rows[n].created
    <3>1. rows[n].created <= clock
      BY <1>2 DEF Latest
    <3>2. QED
      BY <1>1, <1>4, <1>5, <3>1 DEF Pendings
  <2>4. rows[FreshPending(s)].created = rows[n].created
    BY <1>8, <2>2, <2>3
  <2>5. OfAccount(FreshPending(s), AccountOf[s]) /\ FreshPending(s) \in DOMAIN rows
    BY <1>7, <1>8 DEF Pendings
  <2>6. QED
    BY <2>1, <2>4, <2>5
<1>10. QED
  BY <1>3, <1>7, <1>8, <1>9 DEF Pendings

-----------------------------------------------------------------------------
(* The steps. *)

LEMMA ArbitrationInit == Init => ArbitrationInv
<1> SUFFICES ASSUME Init PROVE ArbitrationInv
  OBVIOUS
<1> USE ArbitrationAssumption DEF Init, ArbitrationAssumption
<1>1. TypeOK
  <2>1. [pc |-> "new", id |-> 0, created |-> 0, deadline |-> 0, wake |-> 0,
         status |-> "none", execute |-> FALSE] \in Submission
    BY DEF Submission, Steps
  <2>2. rows \in Seq(Row)
    OBVIOUS
  <2>3. QED
    BY <2>1, <2>2 DEF TypeOK
<1>2. Alone /\ Numbered /\ Latest /\ Watched
  BY DEF Alone, Mid, Numbered, Latest, Watched
<1>3. Verdicts /\ StillPending /\ OwnVerdictOnly
  BY DEF Verdicts, StillPending, OwnVerdictOnly
<1>4. QED
  BY <1>1, <1>2, <1>3 DEF ArbitrationInv

\* What a submission may become.
SubmissionFields == {"pc", "id", "created", "deadline", "wake", "status", "execute"}

LEMMA Times ==
  ASSUME TypeOK
  PROVE  /\ MaxTime \in Nat /\ clock \in Nat /\ clock <= MaxTime
         /\ \A s \in Signals : sub[s].created \in Nat /\ sub[s].id \in Nat
                               /\ DOMAIN sub[s] = SubmissionFields
         /\ \A i \in DOMAIN rows : rows[i].created \in Nat /\ rows[i].signal \in Signals
<1>1. MaxTime \in Nat
  BY ArbitrationAssumption DEF ArbitrationAssumption
<1>2. clock \in 0 .. MaxTime
  BY DEF TypeOK
<1>3. \A s \in Signals : sub[s] \in Submission
  BY DEF TypeOK
<1>4. \A s \in Signals : sub[s].created \in 0 .. MaxTime /\ sub[s].id \in Nat
                         /\ DOMAIN sub[s] = SubmissionFields
  BY <1>3 DEF Submission, SubmissionFields
<1>5. \A i \in DOMAIN rows : rows[i] \in Row
  BY DEF TypeOK
<1>6. \A i \in DOMAIN rows : rows[i].created \in 0 .. MaxTime /\ rows[i].signal \in Signals
  BY <1>5 DEF Row
<1>7. QED
  BY <1>1, <1>2, <1>4, <1>6

LEMMA NumberKeeps ==
  ASSUME Store = "sqlite", ArbitrationInv, NEW s \in Signals, NumberSignal(s)
  PROVE  ArbitrationInv'
<1> USE DEF ArbitrationInv
<1>1. /\ UNCHANGED <<clock, rows, aborted, stale, verdicts>>
      /\ sub[s].pc = "new" /\ Turn
      /\ sub' = [sub EXCEPT ![s] = [sub[s] EXCEPT !.pc = "inserting", !.id = NextId(s),
                                                  !.created = clock]]
  BY DEF NumberSignal
<1>2. NextId(s) = Len(rows) + 1 /\ Len(rows) \in Nat
  BY NextNumber DEF TypeOK
<1>3. /\ sub'[s].pc = "inserting" /\ sub'[s].id = Len(rows) + 1 /\ sub'[s].created = clock
      /\ sub'[s].status = sub[s].status /\ sub'[s].execute = sub[s].execute
      /\ \A t \in Signals \ {s} : sub'[t] = sub[t]
  BY <1>1, <1>2, Times DEF TypeOK, SubmissionFields
<1>4. \A i \in DOMAIN rows : rows[i].signal \in Signals \ {s} /\ rows[i].created <= clock
  BY <1>1, Times DEF Numbered, Latest
<1>5. TypeOK'
  <2>1. clock \in 0 .. MaxTime /\ sub[s] \in Submission /\ NextId(s) \in Nat
    BY <1>2 DEF TypeOK
  <2>2. [sub[s] EXCEPT !.pc = "inserting", !.id = NextId(s), !.created = clock] \in Submission
    BY <2>1 DEF Submission, Steps
  <2>3. QED
    BY <1>1, <2>2 DEF TypeOK
<1>6. Alone'
  BY <1>1, <1>3 DEF Alone, Mid, Turn
<1>7. Numbered'
  BY <1>1, <1>3, <1>4 DEF Numbered
<1>8. Latest'
  BY <1>1, <1>3, <1>4, Times DEF Latest, Mid
<1>9. \A t \in Signals \ {s} : Twin(t)' <=> Twin(t)
  BY <1>1, <1>3 DEF Twin, OfAccount
<1>10. Watched'
  BY <1>1, <1>3, <1>9 DEF Watched, OfAccount
<1>11. Verdicts' /\ StillPending'
  BY <1>1, <1>3 DEF Verdicts, StillPending, Given
<1>12. OwnVerdictOnly'
  BY <1>1, <1>3, <1>9 DEF OwnVerdictOnly, Verdicts, Given
<1>13. QED
  BY <1>5, <1>6, <1>7, <1>8, <1>10, <1>11, <1>12

LEMMA InsertKeeps ==
  ASSUME Store = "sqlite", ArbitrationInv, NEW s \in Signals, InsertSignal(s)
  PROVE  ArbitrationInv'
<1> USE DEF ArbitrationInv
<1> DEFINE new == [signal |-> s, id |-> sub[s].id, created |-> sub[s].created,
                   expires |-> sub[s].created + Ttl, status |-> "pending"]
           n == Len(rows) + 1
<1>1. /\ UNCHANGED <<clock, aborted, stale, verdicts>>
      /\ sub[s].pc = "inserting"
      /\ rows' = Append(rows, new)
      /\ sub' = [sub EXCEPT ![s] = [sub[s] EXCEPT !.pc = "finding"]]
  BY DEF InsertSignal
<1>2. /\ sub'[s].pc = "finding"
      /\ sub'[s].id = sub[s].id /\ sub'[s].created = sub[s].created
      /\ sub'[s].status = sub[s].status /\ sub'[s].execute = sub[s].execute
      /\ \A t \in Signals \ {s} : sub'[t] = sub[t]
  BY <1>1, Times DEF TypeOK, SubmissionFields
<1>3. new \in Row
  <2>1. sub[s].created \in 0 .. MaxTime /\ sub[s].id \in Nat
    BY DEF TypeOK, Submission
  <2>2. sub[s].created + Ttl \in Nat
    BY Times, ArbitrationAssumption DEF ArbitrationAssumption
  <2>3. QED
    BY <2>1, <2>2 DEF Row, Statuses
<1>4. /\ Len(rows) \in Nat /\ DOMAIN rows = 1 .. Len(rows)
      /\ Len(rows') = n /\ DOMAIN rows' = 1 .. n
      /\ rows'[n] = new
      /\ \A i \in DOMAIN rows : i \in DOMAIN rows' /\ rows'[i] = rows[i]
      /\ rows' \in Seq(Row)
  <2> HIDE DEF new
  <2>1. rows \in Seq(Row)
    BY DEF TypeOK
  <2>2. QED
    BY <1>1, <1>3, <2>1
<1>5. sub[s].id = n /\ stale = {}
  BY <1>1 DEF Latest, Alone, Mid
<1>6. /\ rows'[n].signal = s /\ rows'[n].id = n /\ rows'[n].created = sub[s].created
      /\ rows'[n].status = "pending"
  BY <1>4, <1>5
<1>7. \A i \in DOMAIN rows' : i \in DOMAIN rows \/ i = n
  BY <1>4
<1> HIDE DEF new, n
<1>8. \A i \in DOMAIN rows : rows[i].signal \in Signals \ {s}
  BY <1>1, Times DEF Numbered
<1>9. TypeOK'
  <2>1. [sub[s] EXCEPT !.pc = "finding"] \in Submission
    BY DEF TypeOK, Submission, Steps
  <2>2. stale' \subseteq DOMAIN rows'
    BY <1>1, <1>5
  <2>3. QED
    BY <1>1, <1>4, <2>1, <2>2 DEF TypeOK
<1>10. Alone'
  BY <1>1, <1>2 DEF Alone, Mid
<1>11. Numbered'
  BY <1>1, <1>2, <1>4, <1>6, <1>7, <1>8 DEF Numbered
<1>12. Latest'
  <2>1. n > 0
    BY <1>4 DEF n
  <2>2. \A t \in Signals \ {s} : ~Mid(t)
    BY <1>1 DEF Alone, Mid
  <2>3. \A i \in DOMAIN rows : rows[i].created <= sub[s].created
    BY <1>1 DEF Latest, Mid
  <2>4. sub[s].created \in Nat
    BY Times
  <2>5. QED
    BY <1>1, <1>2, <1>4, <1>6, <1>7, <2>1, <2>2, <2>3, <2>4 DEF Latest, Mid
<1>13. \A t \in Signals \ {s} : Twin(t) => Twin(t)'
  BY <1>2, <1>4 DEF Twin, OfAccount
<1>14. Watched'
  BY <1>1, <1>2, <1>4, <1>13 DEF Watched, OfAccount
<1>15. Verdicts' /\ StillPending'
  <2>1. \A t, v : Given(t, v)' <=> Given(t, v)
    BY <1>1 DEF Given
  <2>2. \A i \in DOMAIN rows' :
          (rows[i].status \in {"approved", "rejected"} => Given(rows[i].signal, rows[i].status))'
    <3>1. \A i \in DOMAIN rows :
            rows[i].status \in {"approved", "rejected"} => Given(rows[i].signal, rows[i].status)
      BY DEF Verdicts
    <3>2. rows'[n].status \notin {"approved", "rejected"}
      BY <1>6
    <3>3. QED
      BY <1>4, <1>7, <2>1, <3>1, <3>2
  <2>3. \A t \in Signals : sub'[t].pc # "ended" => sub'[t].status = "none" /\ ~sub'[t].execute
    BY <1>1, <1>2 DEF Verdicts
  <2>4. QED
    <3>1. Verdicts'
      BY <2>2, <2>3 DEF Verdicts
    <3>2. QED
      BY <1>1, <1>5, <3>1 DEF StillPending
<1>16. OwnVerdictOnly'
  <2>1. sub[s].status = "none" /\ ~sub[s].execute
    BY <1>1 DEF Verdicts
  <2>2. \A t, v : Given(t, v)' <=> Given(t, v)
    BY <1>1 DEF Given
  <2>3. QED
    BY <1>2, <1>13, <2>1, <2>2 DEF OwnVerdictOnly
<1>17. QED
  BY <1>9, <1>10, <1>11, <1>12, <1>14, <1>15, <1>16

\* A step of one submission that leaves the rows alone and does not number it.
Acts(s) ==
  /\ UNCHANGED <<clock, rows, stale, verdicts>>
  /\ \A t \in Signals \ {s} : sub'[t] = sub[t]
  /\ sub' \in [Signals -> Submission]
  /\ sub'[s].created = sub[s].created
  /\ sub[s].pc \in {"finding", "waiting"} /\ sub'[s].pc \in {"waiting", "ended"}
  /\ aborted' = aborted
  /\ sub'[s].pc = "waiting" =>
       /\ sub'[s].id \in DOMAIN rows
       /\ OfAccount(sub'[s].id, AccountOf[s])
       /\ Twin(s) \/ rows[sub'[s].id].signal = s
       /\ sub'[s].status = "none" /\ ~sub'[s].execute
  /\ ~Twin(s) =>
       /\ sub'[s].status \in {"approved", "rejected"} => Given(s, sub'[s].status)
       /\ sub'[s].execute /\ s \notin HighScore => Given(s, "approved")

LEMMA ActsKeeps ==
  ASSUME ArbitrationInv, NEW s \in Signals, Acts(s)
  PROVE  ArbitrationInv'
<1> USE DEF ArbitrationInv
<1>1. TypeOK'
  BY DEF Acts, TypeOK
<1>2. Alone'
  BY DEF Acts, Alone, Mid
<1>3. Numbered'
  BY Times DEF Acts, Numbered
<1>4. Latest'
  BY DEF Acts, Latest, Mid
<1>5. \A t \in Signals : Twin(t)' <=> Twin(t)
  BY DEF Acts, Twin, OfAccount
<1>6. \A t, v : Given(t, v)' <=> Given(t, v)
  BY DEF Acts, Given
<1>7. Watched'
  BY <1>5 DEF Acts, Watched, OfAccount
<1>8. Verdicts'
  BY <1>6 DEF Acts, Verdicts
<1>9. StillPending'
  BY DEF Acts, StillPending
<1>10. OwnVerdictOnly'
  BY <1>5, <1>6 DEF Acts, OwnVerdictOnly
<1>11. QED
  BY <1>1, <1>2, <1>3, <1>4, <1>7, <1>8, <1>9, <1>10

LEMMA FindActs ==
  ASSUME ArbitrationInv, NEW s \in Signals, FindSignal(s)
  PROVE  Acts(s)
<1> USE DEF ArbitrationInv
<1> DEFINE r == FreshPending(s)
           waits == [sub[s] EXCEPT !.pc = "waiting", !.id = rows[r].id,
                                   !.deadline = clock + MaxWait, !.wake = clock + PollInterval]
<1>1. /\ UNCHANGED <<clock, rows, aborted, stale, verdicts>>
      /\ sub[s].pc = "finding"
  BY DEF FindSignal
<1>2. /\ r \in DOMAIN rows /\ OfAccount(r, AccountOf[s])
      /\ Twin(s) \/ rows[r].signal = s
      /\ Pendings(s) # {}
  BY <1>1, FoundRow
<1> HIDE DEF r
<1>3. rows[r].id = r /\ r \in Nat
  BY <1>2 DEF Numbered, TypeOK
<1>4. sub' = [sub EXCEPT ![s] = waits]
  BY <1>2 DEF FindSignal, r
<1>5. /\ sub'[s] = waits
      /\ \A t \in Signals \ {s} : sub'[t] = sub[t]
  BY <1>4 DEF TypeOK
<1>6. /\ waits.pc = "waiting" /\ waits.id = r /\ waits.created = sub[s].created
      /\ waits.status = sub[s].status /\ waits.execute = sub[s].execute
  BY <1>3, Times DEF SubmissionFields
<1>7. waits \in Submission
  <2>1. clock + MaxWait \in Nat /\ clock + PollInterval \in Nat
    BY Times, ArbitrationAssumption DEF ArbitrationAssumption
  <2>2. QED
    BY <1>3, <2>1 DEF TypeOK, Submission, Steps
<1> HIDE DEF waits
<1>8. sub' \in [Signals -> Submission]
  BY <1>4, <1>7 DEF TypeOK
<1>9. sub[s].status = "none" /\ ~sub[s].execute
  BY <1>1 DEF Verdicts
<1>10. QED
  BY <1>1, <1>2, <1>5, <1>6, <1>8, <1>9 DEF Acts

LEMMA AwaitActs ==
  ASSUME ArbitrationInv, NEW s \in Signals, Await(s)
  PROVE  Acts(s)
<1> USE DEF ArbitrationInv
<1>1. /\ UNCHANGED <<clock, rows, aborted, stale, verdicts>>
      /\ sub[s].pc = "waiting"
  BY DEF Await, TimeOut, TakeVerdict, SleepOn, Wake
<1>2. /\ sub[s].id \in DOMAIN rows
      /\ OfAccount(sub[s].id, AccountOf[s])
      /\ Twin(s) \/ rows[sub[s].id].signal = s
      /\ sub[s].status = "none" /\ ~sub[s].execute
  BY <1>1 DEF Watched, Verdicts
<1>3. RowOf(s) = sub[s].id
  BY <1>2, RowOfNumber
<1>4. sub[s] \in Submission
  BY DEF TypeOK
<1>5. CASE TimeOut(s)
  <2> DEFINE b == s \in HighScore
             e == [sub[s] EXCEPT !.pc = "ended", !.status = "timeout", !.execute = b]
  <2>0. b \in BOOLEAN
    OBVIOUS
  <2>1. sub' = [sub EXCEPT ![s] = e]
    BY <1>5 DEF TimeOut
  <2>2. /\ e.pc = "ended" /\ e.created = sub[s].created /\ e.status = "timeout"
        /\ e.execute = b
    <3> HIDE DEF b
    <3> QED
      BY Times DEF SubmissionFields
  <2>3. e \in Submission
    <3> HIDE DEF b
    <3> QED
      BY <1>4, <2>0 DEF Submission, Steps
  <2> HIDE DEF e
  <2>4. /\ sub'[s] = e /\ sub' \in [Signals -> Submission]
        /\ \A t \in Signals \ {s} : sub'[t] = sub[t]
    BY <2>1, <2>3 DEF TypeOK
  <2>5. QED
    BY <1>1, <2>2, <2>4 DEF Acts
<1>6. CASE TakeVerdict(s)
  <2> DEFINE v == rows[RowOf(s)].status
             e == [sub[s] EXCEPT !.pc = "ended", !.status = v, !.execute = (v = "approved")]
  <2>1. sub' = [sub EXCEPT ![s] = e] /\ v \in {"approved", "rejected"}
    BY <1>6 DEF TakeVerdict, Decided
  <2>2. /\ e.pc = "ended" /\ e.created = sub[s].created /\ e.status = v
        /\ e.execute = (v = "approved")
    BY Times DEF SubmissionFields
  <2>3. e \in Submission
    BY <1>4, <2>1 DEF Submission, Steps
  <2>4. ~Twin(s) => Given(s, v)
    BY <1>2, <1>3, <2>1 DEF Verdicts
  <2> HIDE DEF e, v
  <2>5. /\ sub'[s] = e /\ sub' \in [Signals -> Submission]
        /\ \A t \in Signals \ {s} : sub'[t] = sub[t]
    BY <2>1, <2>3 DEF TypeOK
  <2>6. QED
    BY <1>1, <2>2, <2>4, <2>5 DEF Acts
<1>7. CASE SleepOn(s)
  <2> DEFINE e == [sub[s] EXCEPT !.wake = clock + PollInterval]
  <2>1. sub' = [sub EXCEPT ![s] = e]
    BY <1>7 DEF SleepOn
  <2>2. /\ e.pc = "waiting" /\ e.created = sub[s].created /\ e.status = sub[s].status
        /\ e.execute = sub[s].execute /\ e.id = sub[s].id
    BY <1>1, Times DEF SubmissionFields
  <2>3. e \in Submission
    <3>1. clock + PollInterval \in Nat
      BY Times, ArbitrationAssumption DEF ArbitrationAssumption
    <3>2. QED
      BY <1>4, <3>1 DEF Submission
  <2> HIDE DEF e
  <2>4. /\ sub'[s] = e /\ sub' \in [Signals -> Submission]
        /\ \A t \in Signals \ {s} : sub'[t] = sub[t]
    BY <2>1, <2>3 DEF TypeOK
  <2>5. QED
    BY <1>1, <1>2, <2>2, <2>4 DEF Acts
<1>8. QED
  BY <1>5, <1>6, <1>7 DEF Await

\* A step that writes the status of a row.
LEMMA Restatus ==
  ASSUME TypeOK, NEW i \in DOMAIN rows, NEW v \in Statuses,
         rows' = [rows EXCEPT ![i] = [rows[i] EXCEPT !.status = v]]
  PROVE  /\ rows' \in Seq(Row) /\ Len(rows') = Len(rows) /\ DOMAIN rows' = DOMAIN rows
         /\ \A j \in DOMAIN rows : /\ rows'[j].signal = rows[j].signal
                                   /\ rows'[j].id = rows[j].id
                                   /\ rows'[j].created = rows[j].created
         /\ rows'[i].status = v
         /\ \A j \in DOMAIN rows \ {i} : rows'[j] = rows[j]
<1> DEFINE e == [rows[i] EXCEPT !.status = v]
<1>1. rows[i] \in Row /\ rows \in Seq(Row)
  BY DEF TypeOK
<1>2. /\ e \in Row /\ e.signal = rows[i].signal /\ e.id = rows[i].id
      /\ e.created = rows[i].created /\ e.status = v
  BY <1>1 DEF Row
<1>3. rows' = [rows EXCEPT ![i] = e]
  OBVIOUS
<1> HIDE DEF e
<1>4. QED
  BY <1>1, <1>2, <1>3

\* A verdict reaches the row it was given for, while nobody is in between.
LEMMA VerdictKeeps ==
  ASSUME Store = "sqlite", ArbitrationInv, NEW i \in DOMAIN rows,
         NEW v \in {"approved", "rejected"}, GiveVerdict(i, v)
  PROVE  ArbitrationInv' /\ rows'[i].status = v /\ \A j \in DOMAIN rows \ {i} : rows'[j] = rows[j]
<1> USE DEF ArbitrationInv
<1>1. FirstIn({j \in DOMAIN rows : rows[j].id = rows[i].id}) = i
  <2>1. i \in Nat /\ {j \in DOMAIN rows : rows[j].id = rows[i].id} = {i}
    BY DEF Numbered, TypeOK
  <2>2. QED
    BY <2>1, FirstOfOne
<1>2. /\ UNCHANGED <<clock, sub, aborted, stale>>
      /\ Turn
      /\ rows' = [rows EXCEPT ![i] = [rows[i] EXCEPT !.status = v]]
      /\ verdicts' = verdicts \cup {<<rows[i].signal, v, clock>>}
  BY <1>1 DEF GiveVerdict
<1>3. stale = {} /\ \A s \in Signals : ~Mid(s)
  BY <1>2 DEF Turn, Mid
<1>4. /\ rows' \in Seq(Row) /\ Len(rows') = Len(rows) /\ DOMAIN rows' = DOMAIN rows
      /\ \A j \in DOMAIN rows : /\ rows'[j].signal = rows[j].signal
                                /\ rows'[j].id = rows[j].id
                                /\ rows'[j].created = rows[j].created
      /\ rows'[i].status = v
      /\ \A j \in DOMAIN rows \ {i} : rows'[j] = rows[j]
  BY <1>2, Restatus DEF Statuses
<1>5. TypeOK'
  <2>1. rows[i].signal \in Signals /\ clock \in 0 .. MaxTime
    BY Times DEF TypeOK
  <2>2. QED
    BY <1>2, <1>3, <1>4, <2>1 DEF TypeOK
<1>6. Alone' /\ Numbered'
  BY <1>2, <1>3, <1>4 DEF Alone, Mid, Numbered
<1>7. Latest'
  BY <1>2, <1>3, <1>4 DEF Latest, Mid
<1>8. \A s \in Signals : Twin(s)' <=> Twin(s)
  BY <1>2, <1>4 DEF Twin, OfAccount
<1>9. Watched'
  BY <1>2, <1>4, <1>8 DEF Watched, OfAccount
<1>10. /\ \A s, w : Given(s, w) => Given(s, w)'
       /\ Given(rows[i].signal, v)'
  <2>1. verdicts \subseteq verdicts' /\ <<rows[i].signal, v, clock>> \in verdicts'
    BY <1>2
  <2>2. clock \in 0 .. MaxTime /\ rows'[i].signal = rows[i].signal
    BY <1>4 DEF TypeOK
  <2>3. QED
    BY <2>1, <2>2 DEF Given
<1>11. Verdicts' /\ StillPending'
  <2>1. \A j \in DOMAIN rows' :
          (rows[j].status \in {"approved", "rejected"} => Given(rows[j].signal, rows[j].status))'
    BY <1>4, <1>10 DEF Verdicts
  <2>2. QED
    BY <1>2, <1>3, <2>1 DEF Verdicts, StillPending
<1>12. OwnVerdictOnly'
  BY <1>2, <1>8, <1>10 DEF OwnVerdictOnly
<1>13. QED
  BY <1>4, <1>5, <1>6, <1>7, <1>9, <1>11, <1>12

LEMMA BeginExpiryKeeps ==
  ASSUME Store = "sqlite", ArbitrationInv, BeginExpiry
  PROVE  ArbitrationInv'
<1> USE DEF ArbitrationInv
<1>1. /\ UNCHANGED <<clock, sub, rows, aborted, verdicts>>
      /\ Turn
      /\ stale' = {i \in DOMAIN rows : Due(i)}
  BY DEF BeginExpiry
<1>2. TypeOK'
  BY <1>1 DEF TypeOK
<1>3. Alone' /\ StillPending'
  BY <1>1 DEF Alone, Mid, Turn, StillPending, Due
<1>4. Numbered' /\ Latest'
  BY <1>1 DEF Numbered, Latest, Mid
<1>5. Watched' /\ Verdicts' /\ OwnVerdictOnly'
  BY <1>1 DEF Watched, Verdicts, OwnVerdictOnly, Twin, Given, OfAccount
<1>6. QED
  BY <1>2, <1>3, <1>4, <1>5

\* An expiry run writes a row that is pending, as it read it.
LEMMA ExpireKeeps ==
  ASSUME Store = "sqlite", ArbitrationInv, ExpireRow
  PROVE  ArbitrationInv' /\ \A j \in DOMAIN rows : rows'[j] = rows[j] \/ rows[j].status = "pending"
<1> USE DEF ArbitrationInv
<1> DEFINE i == FirstIn(stale)
<1>1. /\ UNCHANGED <<clock, sub, aborted, verdicts>>
      /\ stale # {}
      /\ rows' = [rows EXCEPT ![i] = [rows[i] EXCEPT !.status = "expired"]]
      /\ stale' = stale \ {i}
  BY DEF ExpireRow
<1>2. i \in stale /\ stale \subseteq DOMAIN rows
  <2>1. stale \subseteq DOMAIN rows /\ stale \subseteq Nat
    BY DEF TypeOK
  <2>2. QED
    BY <1>1, <2>1, FirstOfSome
<1> HIDE DEF i
<1>3. rows[i].status = "pending" /\ i \in DOMAIN rows
  BY <1>2 DEF StillPending
<1>4. /\ rows' \in Seq(Row) /\ Len(rows') = Len(rows) /\ DOMAIN rows' = DOMAIN rows
      /\ \A j \in DOMAIN rows : /\ rows'[j].signal = rows[j].signal
                                /\ rows'[j].id = rows[j].id
                                /\ rows'[j].created = rows[j].created
      /\ rows'[i].status = "expired"
      /\ \A j \in DOMAIN rows \ {i} : rows'[j] = rows[j]
  BY <1>1, <1>3, Restatus DEF Statuses
<1>5. \A s \in Signals : ~Mid(s)
  BY <1>1 DEF Alone
<1>6. TypeOK'
  BY <1>1, <1>2, <1>4 DEF TypeOK
<1>7. Alone' /\ Numbered'
  BY <1>1, <1>4, <1>5 DEF Alone, Mid, Numbered
<1>8. Latest'
  BY <1>1, <1>4, <1>5 DEF Latest, Mid
<1>9. \A s \in Signals : Twin(s)' <=> Twin(s)
  BY <1>1, <1>4 DEF Twin, OfAccount
<1>10. Watched'
  BY <1>1, <1>4, <1>9 DEF Watched, OfAccount
<1>11. \A s, w : Given(s, w)' <=> Given(s, w)
  BY <1>1 DEF Given
<1>12. Verdicts'
  <2>1. \A j \in DOMAIN rows' :
          (rows[j].status \in {"approved", "rejected"} => Given(rows[j].signal, rows[j].status))'
    BY <1>4, <1>11 DEF Verdicts
  <2>2. QED
    BY <1>1, <2>1 DEF Verdicts
<1>13. StillPending'
  BY <1>1, <1>2, <1>4 DEF StillPending
<1>14. OwnVerdictOnly'
  BY <1>1, <1>9, <1>11 DEF OwnVerdictOnly
<1>15. QED
  BY <1>3, <1>4, <1>6, <1>7, <1>8, <1>10, <1>12, <1>13, <1>14

LEMMA RestKeeps ==
  ASSUME ArbitrationInv, Tick \/ (\E s \in Signals : Abort(s)) \/ UNCHANGED vars
  PROVE  ArbitrationInv'
<1> USE DEF ArbitrationInv
<1>1. /\ UNCHANGED <<sub, rows, stale, verdicts>>
      /\ clock' = clock \/ (clock < MaxTime /\ clock' = clock + 1)
      /\ aborted' \subseteq Signals
  BY ArbitrationAssumption DEF Tick, Abort, vars, TypeOK, ArbitrationAssumption
<1>2. TypeOK'
  BY <1>1, Times DEF TypeOK
<1>3. Alone' /\ StillPending'
  BY <1>1 DEF Alone, Mid, StillPending
<1>4. Numbered'
  BY <1>1 DEF Numbered
<1>5. Latest'
  BY <1>1, Times DEF Latest, Mid
<1>6. Watched' /\ Verdicts' /\ OwnVerdictOnly'
  BY <1>1 DEF Watched, Verdicts, OwnVerdictOnly, Twin, Given, OfAccount
<1>7. QED
  BY <1>2, <1>3, <1>4, <1>5, <1>6

LEMMA ArbitrationNext ==
  ASSUME Store = "sqlite", ArbitrationInv, [Next]_vars
  PROVE  /\ ArbitrationInv'
         /\ \A i \in DOMAIN rows :
              rows[i].status \in {"approved", "rejected"} => rows'[i].status # "expired"
<1> DEFINE Kept == \A i \in DOMAIN rows :
                     rows[i].status \in {"approved", "rejected"} => rows'[i].status # "expired"
<1>1. ASSUME UNCHANGED rows PROVE Kept
  BY <1>1
<1>2. ASSUME NEW s \in Signals, NumberSignal(s) PROVE ArbitrationInv' /\ Kept
  BY <1>1, <1>2, NumberKeeps DEF NumberSignal
<1>3. ASSUME NEW s \in Signals, InsertSignal(s) PROVE ArbitrationInv' /\ Kept
  <2>1. \A i \in DOMAIN rows : rows'[i] = rows[i]
    BY <1>3 DEF InsertSignal, ArbitrationInv, TypeOK
  <2>2. QED
    BY <1>3, <2>1, InsertKeeps
<1>4. ASSUME NEW s \in Signals, FindSignal(s) \/ Await(s) PROVE ArbitrationInv' /\ Kept
  <2>1. Acts(s)
    BY <1>4, FindActs, AwaitActs
  <2>2. QED
    BY <1>1, <2>1, ActsKeeps DEF Acts
<1>5. ASSUME NEW i \in DOMAIN rows, NEW v \in {"approved", "rejected"}, GiveVerdict(i, v)
      PROVE  ArbitrationInv' /\ Kept
  BY <1>5, VerdictKeeps
<1>6. ASSUME BeginExpiry PROVE ArbitrationInv' /\ Kept
  BY <1>1, <1>6, BeginExpiryKeeps DEF BeginExpiry
<1>7. ASSUME ExpireRow PROVE ArbitrationInv' /\ Kept
  BY <1>7, ExpireKeeps
<1>8. ASSUME Tick \/ (\E s \in Signals : Abort(s)) \/ UNCHANGED vars
      PROVE  ArbitrationInv' /\ Kept
  BY <1>1, <1>8, RestKeeps DEF Tick, Abort, vars
<1>9. QED
  BY <1>2, <1>3, <1>4, <1>5, <1>6, <1>7, <1>8 DEF Next, Submit

-----------------------------------------------------------------------------
(* The theorems. *)

\* What the theorems rest on, at every moment.
LEMMA ArbitrationInvariant == ASSUME Store = "sqlite" PROVE Spec => []ArbitrationInv
<1>1. ArbitrationInv /\ [Next]_vars => ArbitrationInv'
  BY ArbitrationNext
<1>2. QED
  BY <1>1, ArbitrationInit, PTL DEF Spec

\* Against SQLite a submission whose signal has no twin ends with a verdict only
\* if an arbiter gave that verdict to this signal, whatever other submissions,
\* arbiters, expiry runs and cancellations do meanwhile.
THEOREM VerdictsAreOwn == ASSUME Store = "sqlite" PROVE Spec => []OwnVerdictOnly
<1>1. ArbitrationInv => OwnVerdictOnly
  BY DEF ArbitrationInv
<1>2. QED
  BY <1>1, ArbitrationInvariant, PTL

\* Against SQLite an expiry run never undoes a verdict, although it writes rows
\* it read earlier without looking at them again.
THEOREM VerdictsAreKept == ASSUME Store = "sqlite" PROVE Spec => VerdictIsKept
<1>1. ArbitrationInv /\ [Next]_vars =>
        [\A i \in DOMAIN rows :
           rows[i].status \in {"approved", "rejected"} => rows'[i].status # "expired"]_vars
  BY ArbitrationNext
<1>2. QED
  BY <1>1, ArbitrationInvariant, PTL DEF Spec, VerdictIsKept

=============================================================================
