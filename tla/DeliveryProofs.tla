---------------------------- MODULE DeliveryProofs ----------------------------
(***************************************************************************)
(* Proofs about Delivery, for any messages, patterns, prefetch count and   *)
(* number of crashes.                                                      *)
(*                                                                         *)
(* A step changes one copy, or makes one more, or is a crash; Counted,     *)
(* Budgeted and Course say of each message how many copies there are, how  *)
(* many calls they can still cause, and how far it is in its course.       *)
(***************************************************************************)
EXTENDS Delivery, Integers, FiniteSetTheorems, SequenceTheorems, TLAPS

Records ==
    [msg : Messages, redelivery : 0 .. MaxRedeliveries,
     place : {"delayed", "queued", "unacked", "gone"},
     step : {"none", "consuming", "backoff", "returned", "failed", "parking"},
     attempt : 0 .. MaxRetries, parking : BOOLEAN]

\* TypeOK, and that copies is a sequence.
Typed == copies \in Seq(Records) /\ TypeOK

\* The bounds of the patterns are numbers.
LEMMA Limits == MaxRetries \in Nat /\ MaxRedeliveries \in Nat /\ MaxCrashes \in Nat
  BY DeliveryAssumption

\* A sequence after one of its elements was replaced.
LEMMA Replaced ==
    ASSUME copies \in Seq(Records), NEW c \in Copies, NEW r \in Records,
           copies' = [copies EXCEPT ![c] = r]
    PROVE  /\ copies' \in Seq(Records)
           /\ Len(copies') = Len(copies) /\ Copies' = Copies
           /\ copies'[c] = r
           /\ \A i \in Copies \ {c} : copies'[i] = copies[i]
  BY ExceptSeq, LenProperties DEF Copies

\* A sequence after one of its elements was replaced and one was appended.
LEMMA ReplacedAndAppended ==
    ASSUME copies \in Seq(Records), NEW c \in Copies, NEW r \in Records, NEW new \in Records,
           copies' = Append([copies EXCEPT ![c] = r], new)
    PROVE  /\ copies' \in Seq(Records)
           /\ Len(copies') = Len(copies) + 1 /\ Copies' = Copies \cup {Len(copies) + 1}
           /\ copies'[c] = r /\ copies'[Len(copies) + 1] = new
           /\ \A i \in Copies \ {c} : copies'[i] = copies[i]
<1>1. /\ [copies EXCEPT ![c] = r] \in Seq(Records)
      /\ Len([copies EXCEPT ![c] = r]) = Len(copies)
      /\ \A i \in Copies : [copies EXCEPT ![c] = r][i] = IF i = c THEN r ELSE copies[i]
  BY ExceptSeq DEF Copies
<1>2. Len(copies) \in Nat
  BY LenProperties
<1>3. /\ copies' \in Seq(Records) /\ Len(copies') = Len(copies) + 1
      /\ \A i \in 1 .. Len(copies) : copies'[i] = [copies EXCEPT ![c] = r][i]
      /\ copies'[Len(copies) + 1] = new
  BY <1>1, AppendProperties
<1>. QED  BY <1>1, <1>2, <1>3 DEF Copies

-----------------------------------------------------------------------------
\* What the actions do to copies.

Others(c) == \A i \in Copies \ {c} : copies'[i] = copies[i]

\* The step leaves copy c at this place and step ...
Moved(c, place, step, attempt, parking) ==
    /\ copies'[c].msg = copies[c].msg /\ copies'[c].redelivery = copies[c].redelivery
    /\ copies'[c].place = place /\ copies'[c].step = step
    /\ copies'[c].attempt = attempt /\ copies'[c].parking = parking

\* ... and every other one alone.
Updates(c, place, step, attempt, parking) ==
    /\ copies' \in Seq(Records) /\ Len(copies') = Len(copies) /\ Copies' = Copies
    /\ Moved(c, place, step, attempt, parking)
    /\ Others(c)

\* Whatever a copy becomes it is the only one that changes.
LEMMA UpdatesOne ==
    ASSUME Typed, NEW c \in Copies, NEW r \in Records, copies' = [copies EXCEPT ![c] = r],
           r.msg = copies[c].msg, r.redelivery = copies[c].redelivery
    PROVE  Updates(c, r.place, r.step, r.attempt, r.parking)
  BY Replaced DEF Typed, Updates, Moved, Others

\* Every copy is a record.
LEMMA RecordOf ==
    ASSUME Typed, NEW c \in Copies
    PROVE  copies[c] \in Records
  BY ElementOfSeq DEF Typed, Copies

\* The actions of the broker and of the in-process retries.
LEMMA DelayPassesUpdates ==
    ASSUME Typed, NEW c \in Copies, DelayPasses(c)
    PROVE  Updates(c, "queued", copies[c].step, copies[c].attempt, copies[c].parking)
<1>. DEFINE r == [copies[c] EXCEPT !.place = "queued"]
<1>1. copies' = [copies EXCEPT ![c] = r]
  BY DEF DelayPasses
<1>2. /\ r \in Records /\ r.msg = copies[c].msg /\ r.redelivery = copies[c].redelivery
      /\ r.place = "queued" /\ r.step = copies[c].step /\ r.attempt = copies[c].attempt
      /\ r.parking = copies[c].parking
  BY RecordOf DEF Records
<1>. HIDE DEF r
<1>. QED  BY <1>1, <1>2, UpdatesOne

\* A delivery takes a slot and calls Consume.
LEMMA DeliverUpdates ==
    ASSUME Typed, NEW c \in Copies, Deliver(c)
    PROVE  Updates(c, "unacked", "consuming", copies[c].attempt, copies[c].parking)
<1>. DEFINE r == [copies[c] EXCEPT !.place = "unacked", !.step = "consuming"]
<1>1. copies' = [copies EXCEPT ![c] = r]
  BY RecordOf DEF Deliver, Typed, Copies
<1>2. /\ r \in Records /\ r.msg = copies[c].msg /\ r.redelivery = copies[c].redelivery
      /\ r.place = "unacked" /\ r.step = "consuming" /\ r.attempt = copies[c].attempt
      /\ r.parking = copies[c].parking
  BY RecordOf DEF Records
<1>. HIDE DEF r
<1>. QED  BY <1>1, <1>2, UpdatesOne

\* A step of the handler leaves the place.
LEMMA GotoUpdates ==
    ASSUME Typed, NEW c \in Copies,
           NEW step \in {"none", "consuming", "backoff", "returned", "failed", "parking"},
           copies' = Goto(c, step)
    PROVE  Updates(c, copies[c].place, step, copies[c].attempt, copies[c].parking)
<1>. DEFINE r == [copies[c] EXCEPT !.step = step]
<1>1. copies' = [copies EXCEPT ![c] = r]
  BY RecordOf DEF Goto, Typed, Copies
<1>2. /\ r \in Records /\ r.msg = copies[c].msg /\ r.redelivery = copies[c].redelivery
      /\ r.place = copies[c].place /\ r.step = step /\ r.attempt = copies[c].attempt
      /\ r.parking = copies[c].parking
  BY RecordOf DEF Records
<1>. HIDE DEF r
<1>. QED  BY <1>1, <1>2, UpdatesOne

\* An attempt that fails is followed by a wait, or is the last.
LEMMA ThrowsUpdates ==
    ASSUME Typed, NEW c \in Copies, ConsumeThrows(c)
    PROVE  IF copies[c].attempt < MaxRetries
           THEN Updates(c, copies[c].place, "backoff", copies[c].attempt + 1, copies[c].parking)
           ELSE Updates(c, copies[c].place, "failed", copies[c].attempt, copies[c].parking)
<1>1. CASE copies[c].attempt < MaxRetries
  <2>. DEFINE r == [copies[c] EXCEPT !.step = "backoff", !.attempt = @ + 1]
  <2>1. copies' = [copies EXCEPT ![c] = r]
    BY <1>1, RecordOf DEF ConsumeThrows, Typed, Copies
  <2>2. copies[c].attempt + 1 \in 0 .. MaxRetries
    BY <1>1, RecordOf, Limits DEF Records
  <2>3. /\ r \in Records /\ r.msg = copies[c].msg /\ r.redelivery = copies[c].redelivery
        /\ r.place = copies[c].place /\ r.step = "backoff"
        /\ r.attempt = copies[c].attempt + 1 /\ r.parking = copies[c].parking
    BY <2>2, RecordOf DEF Records
  <2>. HIDE DEF r
  <2>. QED  BY <1>1, <2>1, <2>3, UpdatesOne
<1>2. CASE ~(copies[c].attempt < MaxRetries)
  BY <1>2, GotoUpdates DEF ConsumeThrows
<1>. QED  BY <1>1, <1>2

\* The actions of the error callback, and the acknowledgements.
LEMMA ParkUpdates ==
    ASSUME Typed, NEW c \in Copies, Park(c)
    PROVE  Updates(c, copies[c].place, "parking", copies[c].attempt, TRUE)
<1>. DEFINE r == [copies[c] EXCEPT !.step = "parking", !.parking = TRUE]
<1>1. copies' = [copies EXCEPT ![c] = r]
  BY RecordOf DEF Park, Typed, Copies
<1>2. /\ r \in Records /\ r.msg = copies[c].msg /\ r.redelivery = copies[c].redelivery
      /\ r.place = copies[c].place /\ r.step = "parking" /\ r.attempt = copies[c].attempt
      /\ r.parking = TRUE
  BY RecordOf DEF Records
<1>. HIDE DEF r
<1>. QED  BY <1>1, <1>2, UpdatesOne

\* The callback of checkQueueAndAssert().
LEMMA SendUpdates ==
    ASSUME Typed, NEW c \in Copies, SendToErrorQueue(c)
    PROVE  Updates(c, copies[c].place, copies[c].step, copies[c].attempt, FALSE)
<1>. DEFINE r == [copies[c] EXCEPT !.parking = FALSE]
<1>1. copies' = [copies EXCEPT ![c] = r]
  BY RecordOf DEF SendToErrorQueue, Typed, Copies
<1>2. /\ r \in Records /\ r.msg = copies[c].msg /\ r.redelivery = copies[c].redelivery
      /\ r.place = copies[c].place /\ r.step = copies[c].step
      /\ r.attempt = copies[c].attempt /\ r.parking = FALSE
  BY RecordOf DEF Records
<1>. HIDE DEF r
<1>. QED  BY <1>1, <1>2, UpdatesOne

Gone(c) == [copies[c] EXCEPT !.place = "gone", !.step = "none"]

\* An acknowledged copy is gone.
LEMMA AckedIs ==
    ASSUME Typed, NEW c \in Copies
    PROVE  /\ Acked(c) = [copies EXCEPT ![c] = Gone(c)]
           /\ Gone(c) \in Records
           /\ Gone(c).msg = copies[c].msg /\ Gone(c).redelivery = copies[c].redelivery
           /\ Gone(c).place = "gone" /\ Gone(c).step = "none"
           /\ Gone(c).attempt = copies[c].attempt /\ Gone(c).parking = copies[c].parking
<1>1. Acked(c) = [copies EXCEPT ![c] = Gone(c)]
  BY RecordOf DEF Acked, Gone, Typed, Copies
<1>. QED  BY <1>1, RecordOf DEF Gone, Records

\* The acknowledgement by a timer.
LEMMA AckUpdates ==
    ASSUME Typed, NEW c \in Copies, Ack(c)
    PROVE  Updates(c, "gone", "none", copies[c].attempt, copies[c].parking)
  BY AckedIs, UpdatesOne DEF Ack

\* What a redelivery appends.
Appended(c) ==
    LET n == Len(copies) + 1
    IN  /\ Len(copies') = n /\ Copies' = Copies \cup {n} /\ n \notin Copies
        /\ copies'[n].msg = copies[c].msg /\ copies'[n].redelivery = copies[c].redelivery + 1
        /\ copies'[n].place = "delayed" /\ copies'[n].step = "none"
        /\ copies'[n].attempt = 0 /\ copies'[n].parking = FALSE

\* The copy that a redelivery publishes.
LEMMA NextCopyIs ==
    ASSUME Typed, NEW c \in Copies, CanRedeliver(c)
    PROVE  /\ NextCopy(c) \in Records
           /\ NextCopy(c).msg = copies[c].msg
           /\ NextCopy(c).redelivery = copies[c].redelivery + 1
           /\ NextCopy(c).place = "delayed" /\ NextCopy(c).step = "none"
           /\ NextCopy(c).attempt = 0 /\ NextCopy(c).parking = FALSE
<1>1. copies[c].redelivery + 1 \in 0 .. MaxRedeliveries /\ copies[c].msg \in Messages
  BY RecordOf, Limits DEF CanRedeliver, Records
<1>. QED  BY <1>1, Limits DEF NextCopy, Copy, Records

\* A redelivery.
LEMMA RedeliverUpdates ==
    ASSUME Typed, NEW c \in Copies, Redeliver(c)
    PROVE  /\ copies' \in Seq(Records)
           /\ Moved(c, "gone", "none", copies[c].attempt, copies[c].parking)
           /\ Others(c) /\ Appended(c)
<1>1. copies' = Append([copies EXCEPT ![c] = Gone(c)], NextCopy(c))
  BY AckedIs DEF Redeliver
<1>2. NextCopy(c) \in Records
  BY NextCopyIs DEF Redeliver
<1>3. /\ copies' \in Seq(Records)
      /\ Len(copies') = Len(copies) + 1 /\ Copies' = Copies \cup {Len(copies) + 1}
      /\ copies'[c] = Gone(c) /\ copies'[Len(copies) + 1] = NextCopy(c)
      /\ \A i \in Copies \ {c} : copies'[i] = copies[i]
  BY <1>1, <1>2, AckedIs, ReplacedAndAppended DEF Typed
<1>4. Moved(c, "gone", "none", copies[c].attempt, copies[c].parking)
  BY <1>3, AckedIs DEF Moved
<1>5. Len(copies) + 1 \notin Copies
  BY LenProperties DEF Typed, Copies
<1>6. Appended(c)
  BY <1>3, <1>5, NextCopyIs DEF Appended, Redeliver
<1>. QED  BY <1>3, <1>4, <1>6 DEF Others

\* What a crash makes of a copy.
Restored(i) ==
    /\ copies'[i].msg = copies[i].msg /\ copies'[i].redelivery = copies[i].redelivery
    /\ copies'[i].place = IF copies[i].place = "unacked" THEN "queued" ELSE copies[i].place
    /\ copies'[i].step = "none" /\ copies'[i].attempt = 0 /\ copies'[i].parking = FALSE

\* What the broker holds after a crash.
LEMMA RequeuedIs ==
    ASSUME Typed
    PROVE  /\ Requeued \in Seq(Records) /\ Len(Requeued) = Len(copies)
           /\ \A i \in Copies :
                 /\ Requeued[i].msg = copies[i].msg
                 /\ Requeued[i].redelivery = copies[i].redelivery
                 /\ Requeued[i].place =
                       IF copies[i].place = "unacked" THEN "queued" ELSE copies[i].place
                 /\ Requeued[i].step = "none" /\ Requeued[i].attempt = 0
                 /\ Requeued[i].parking = FALSE
<1>. DEFINE r(i) == [copies[i] EXCEPT !.place = IF @ = "unacked" THEN "queued" ELSE @,
                                      !.step = "none", !.attempt = 0, !.parking = FALSE]
<1>1. \A i \in Copies :
         /\ r(i) \in Records
         /\ r(i).msg = copies[i].msg /\ r(i).redelivery = copies[i].redelivery
         /\ r(i).place = IF copies[i].place = "unacked" THEN "queued" ELSE copies[i].place
         /\ r(i).step = "none" /\ r(i).attempt = 0 /\ r(i).parking = FALSE
  <2>. TAKE i \in Copies
  <2>. DEFINE place == IF copies[i].place = "unacked" THEN "queued" ELSE copies[i].place
  <2>1. copies[i] \in Records
    BY RecordOf
  <2>2. place \in {"delayed", "queued", "unacked", "gone"} /\ 0 \in 0 .. MaxRetries
    BY <2>1, Limits DEF Records
  <2>3. r(i) = [copies[i] EXCEPT !.place = place, !.step = "none", !.attempt = 0,
                                 !.parking = FALSE]
    OBVIOUS
  <2>. HIDE DEF r, place
  <2>4. /\ r(i) \in Records
        /\ r(i).msg = copies[i].msg /\ r(i).redelivery = copies[i].redelivery
        /\ r(i).place = place
        /\ r(i).step = "none" /\ r(i).attempt = 0 /\ r(i).parking = FALSE
    BY <2>1, <2>2, <2>3 DEF Records
  <2>. QED  BY <2>4 DEF place
<1>2. Requeued = [i \in Copies |-> r(i)]
  BY DEF Requeued
<1>. HIDE DEF r
<1>3. Len(copies) \in Nat
  BY LenProperties DEF Typed
<1>4. Requeued \in Seq(Records) /\ Len(Requeued) = Len(copies)
  BY <1>1, <1>2, <1>3 DEF Copies
<1>. QED  BY <1>1, <1>2, <1>4

\* A crash ...
LEMMA CrashUpdates ==
    ASSUME Typed, Crash
    PROVE  /\ copies' \in Seq(Records) /\ Len(copies') = Len(copies) /\ Copies' = Copies
           /\ \A i \in Copies : Restored(i)
  BY RequeuedIs DEF Crash, Restored, Copies

\* ... and one between the two halves of a redelivery.
LEMMA CrashInRedeliverUpdates ==
    ASSUME Typed, NEW c \in Copies, CrashInRedeliver(c)
    PROVE  /\ copies' \in Seq(Records) /\ Appended(c)
           /\ \A i \in Copies : Restored(i)
<1>1. /\ copies' = Append(Requeued, NextCopy(c)) /\ NextCopy(c) \in Records
      /\ Requeued \in Seq(Records) /\ Len(Requeued) = Len(copies) /\ Len(copies) \in Nat
  BY NextCopyIs, RequeuedIs, LenProperties DEF CrashInRedeliver, Typed
<1>2. /\ copies' \in Seq(Records) /\ Len(copies') = Len(copies) + 1
      /\ \A i \in Copies : copies'[i] = Requeued[i]
      /\ copies'[Len(copies) + 1] = NextCopy(c)
  BY <1>1, AppendProperties DEF Copies
<1>3. Copies' = Copies \cup {Len(copies) + 1} /\ Len(copies) + 1 \notin Copies
  BY <1>1, <1>2 DEF Copies
<1>4. \A i \in Copies : Restored(i)
  BY <1>2, RequeuedIs DEF Restored
<1>5. Appended(c)
  BY <1>2, <1>3, NextCopyIs DEF Appended, CrashInRedeliver
<1>. QED  BY <1>2, <1>4, <1>5

-----------------------------------------------------------------------------
\* Types.

Placed == \A c \in Copies : copies[c].step # "none" <=> copies[c].place = "unacked"

Counts ==
    /\ calls \in [Messages -> Nat]
    /\ succeeded \subseteq Messages
    /\ parked \in [Messages -> Nat]
    /\ crashes \in 0 .. MaxCrashes

\* The parts of Typed.
LEMMA TypedIs == Typed <=> copies \in Seq(Records) /\ Placed /\ Counts
<1>1. ASSUME copies \in Seq(Records)
      PROVE  \A c \in Copies : copies[c] \in Records
  BY <1>1, ElementOfSeq DEF Copies
<1>. QED  BY <1>1 DEF Typed, TypeOK, Placed, Counts, Records

\* The copies of the initial state are those of different messages, and there is
\* one of each.
LEMMA InitCopies ==
    ASSUME Init
    PROVE  /\ copies \in Seq(Records)
           /\ \A c \in Copies : copies[c] = Copy(copies[c].msg, 0, "queued")
           /\ \A c, d \in Copies : copies[c].msg = copies[d].msg => c = d
           /\ \A m \in Messages : \E c \in Copies : copies[c].msg = m
<1>. DEFINE S == {Copy(m, 0, "queued") : m \in Messages}
            D == 1 .. Cardinality(S)
<1>1. \A m \in Messages : Copy(m, 0, "queued") \in Records /\ Copy(m, 0, "queued").msg = m
  BY Limits DEF Copy, Records
<1>2. IsFiniteSet(S) /\ Cardinality(S) \in Nat
  <2>. DEFINE f == [m \in Messages |-> Copy(m, 0, "queued")]
  <2>1. f \in Surjection(Messages, S)
    BY DEF Surjection
  <2>. HIDE DEF f, S
  <2>2. IsFiniteSet(S)
    BY <2>1, DeliveryAssumption, FS_Surjection
  <2>. QED  BY <2>2, FS_CardinalityType
<1>3. copies \in [D -> S] /\ \A c, d \in D : c # d => copies[c] # copies[d]
  BY DEF Init, SetToSeqs
<1>4. S \subseteq Records
  BY <1>1
<1>5. \A c \in D : copies[c] \in S
  BY <1>3
<1>6. \A x \in S : x = Copy(x.msg, 0, "queued") /\ x.msg \in Messages
  BY <1>1
<1>7. \A m \in Messages : Copy(m, 0, "queued") \in S
  OBVIOUS
<1>. HIDE DEF S
<1>8. copies \in Injection(D, S)
  BY <1>3 DEF Injection, IsInjective
<1>9. IsFiniteSet(D) /\ Cardinality(D) = Cardinality(S)
  BY <1>2, FS_Interval
<1>10. copies \in Surjection(D, S)
  BY <1>2, <1>8, <1>9, FS_Injection
<1>11. copies \in Seq(Records) /\ Copies = D
  BY <1>2, <1>3, <1>4 DEF Copies
<1>12. \A m \in Messages : \E c \in D : copies[c] = Copy(m, 0, "queued")
  BY <1>7, <1>10 DEF Surjection
<1>13. \A c, d \in D : copies[c].msg = copies[d].msg => c = d
  BY <1>3, <1>5, <1>6
<1>14. \A m \in Messages : \E c \in D : copies[c].msg = m
  BY <1>1, <1>12
<1>. QED  BY <1>5, <1>6, <1>11, <1>13, <1>14

\* At first every message is in the queue.
LEMMA InitTyped == Init => Typed
<1>. SUFFICES ASSUME Init PROVE Typed
  OBVIOUS
<1>1. ASSUME NEW c \in Copies
      PROVE  copies[c].step = "none" /\ copies[c].place = "queued"
  <2>1. copies[c] = Copy(copies[c].msg, 0, "queued")
    BY InitCopies
  <2>. DEFINE m == copies[c].msg
  <2>. HIDE DEF m
  <2>2. Copy(m, 0, "queued").step = "none" /\ Copy(m, 0, "queued").place = "queued"
    BY DEF Copy
  <2>. QED  BY <2>1, <2>2 DEF m
<1>2. Counts
  BY Limits DEF Init, Counts
<1>. QED  BY <1>1, <1>2, InitCopies, TypedIs DEF Placed

\* A message has one more call of Consume.
LEMMA CallCounts ==
    ASSUME Typed, NEW c \in Copies, CallConsume(c)
    PROVE  /\ calls' \in [Messages -> Nat]
           /\ \A m \in Messages :
                 calls'[m] = IF m = copies[c].msg THEN calls[m] + 1 ELSE calls[m]
  BY DEF Typed, TypeOK, CallConsume

\* One copy was replaced by one whose step and place fit.
LEMMA PlacedKept ==
    ASSUME Placed, NEW c \in Copies, Others(c), Copies' = Copies,
           copies'[c].step # "none" <=> copies'[c].place = "unacked"
    PROVE  Placed'
  BY DEF Placed, Others

\* The parts of Typed, after a step.
LEMMA TypedNext == copies' \in Seq(Records) /\ Placed' /\ Counts' => Typed'
<1>1. ASSUME copies' \in Seq(Records)
      PROVE  \A c \in Copies' : copies'[c] \in Records
  BY <1>1, ElementOfSeq DEF Copies
<1>. QED  BY <1>1 DEF Typed, TypeOK, Placed, Counts, Records

\* Every step keeps the types.
LEMMA NextTyped == Typed /\ [Next]_vars => Typed'
<1>. SUFFICES ASSUME Typed, [Next]_vars PROVE Typed'
  OBVIOUS
<1>0. Placed /\ Counts
  BY TypedIs
<1>. SUFFICES copies' \in Seq(Records) /\ Placed' /\ Counts'
  BY TypedNext
<1>1. ASSUME NEW c \in Copies, DelayPasses(c)
      PROVE  copies' \in Seq(Records) /\ Placed' /\ Counts'
  BY <1>0, <1>1, DelayPassesUpdates, PlacedKept
     DEF DelayPasses, Updates, Moved, Counts, Placed
<1>2. ASSUME NEW c \in Copies, Deliver(c)
      PROVE  copies' \in Seq(Records) /\ Placed' /\ Counts'
  <2>1. copies' \in Seq(Records) /\ Placed'
    BY <1>0, <1>2, DeliverUpdates, PlacedKept DEF Updates, Moved
  <2>. QED  BY <1>0, <1>2, <2>1, CallCounts DEF Deliver, Counts
<1>3. ASSUME NEW c \in Copies, ConsumeReturns(c)
      PROVE  copies' \in Seq(Records) /\ Placed' /\ Counts'
  <2>1. copies' \in Seq(Records) /\ Placed'
    BY <1>0, <1>3, GotoUpdates, PlacedKept DEF ConsumeReturns, Updates, Moved, At, Placed
  <2>2. copies[c].msg \in Messages
    BY RecordOf DEF Records
  <2>. QED  BY <1>0, <1>3, <2>1, <2>2 DEF ConsumeReturns, Counts
<1>4. ASSUME NEW c \in Copies, ConsumeThrows(c)
      PROVE  copies' \in Seq(Records) /\ Placed' /\ Counts'
  <2>1. copies' \in Seq(Records) /\ Placed'
    <3>1. copies[c].place = "unacked"
      BY <1>0, <1>4 DEF ConsumeThrows, At, Placed
    <3>2. CASE copies[c].attempt < MaxRetries
      BY <1>0, <1>4, <3>1, <3>2, ThrowsUpdates, PlacedKept DEF Updates, Moved
    <3>3. CASE ~(copies[c].attempt < MaxRetries)
      BY <1>0, <1>4, <3>1, <3>3, ThrowsUpdates, PlacedKept DEF Updates, Moved
    <3>. QED  BY <3>2, <3>3
  <2>. QED  BY <1>0, <1>4, <2>1 DEF ConsumeThrows, Counts
<1>5. ASSUME NEW c \in Copies, ConsumeAgain(c)
      PROVE  copies' \in Seq(Records) /\ Placed' /\ Counts'
  <2>1. copies' \in Seq(Records) /\ Placed'
    BY <1>0, <1>5, GotoUpdates, PlacedKept DEF ConsumeAgain, Updates, Moved, At, Placed
  <2>. QED  BY <1>0, <1>5, <2>1, CallCounts DEF ConsumeAgain, Counts
<1>6. ASSUME NEW c \in Copies, Redeliver(c)
      PROVE  copies' \in Seq(Records) /\ Placed' /\ Counts'
  <2>1. copies' \in Seq(Records) /\ Placed'
    <3>1. /\ copies' \in Seq(Records) /\ Others(c)
          /\ Moved(c, "gone", "none", copies[c].attempt, copies[c].parking) /\ Appended(c)
      BY <1>6, RedeliverUpdates
    <3>2. ASSUME NEW i \in Copies'
          PROVE  copies'[i].step # "none" <=> copies'[i].place = "unacked"
      BY <1>0, <3>1, <3>2 DEF Moved, Others, Appended, Placed
    <3>. QED  BY <3>1, <3>2 DEF Placed
  <2>. QED  BY <1>0, <1>6, <2>1 DEF Redeliver, Counts
<1>7. ASSUME NEW c \in Copies, Park(c)
      PROVE  copies' \in Seq(Records) /\ Placed' /\ Counts'
  <2>1. copies' \in Seq(Records) /\ Placed'
    BY <1>0, <1>7, ParkUpdates, PlacedKept DEF Park, Updates, Moved, At, Placed
  <2>. QED  BY <1>0, <1>7, <2>1 DEF Park, Counts
<1>8. ASSUME NEW c \in Copies, SendToErrorQueue(c)
      PROVE  copies' \in Seq(Records) /\ Placed' /\ Counts'
  <2>1. copies' \in Seq(Records) /\ Placed'
    BY <1>0, <1>8, SendUpdates, PlacedKept DEF Updates, Moved, Placed
  <2>2. copies[c].msg \in Messages
    BY RecordOf DEF Records
  <2>. QED  BY <1>0, <1>8, <2>1, <2>2 DEF SendToErrorQueue, Counts
<1>9. ASSUME NEW c \in Copies, Ack(c)
      PROVE  copies' \in Seq(Records) /\ Placed' /\ Counts'
  <2>1. copies' \in Seq(Records) /\ Placed'
    BY <1>0, <1>9, AckUpdates, PlacedKept DEF Updates, Moved
  <2>. QED  BY <1>0, <1>9, <2>1 DEF Ack, Counts
<1>10. CASE Crash
  <2>1. copies' \in Seq(Records) /\ Placed'
    BY <1>0, <1>10, CrashUpdates DEF Restored, Placed
  <2>. QED  BY <1>0, <1>10, <2>1, Limits DEF Crash, Break, Counts
<1>11. ASSUME NEW c \in Copies, CrashInRedeliver(c)
       PROVE  copies' \in Seq(Records) /\ Placed' /\ Counts'
  <2>1. copies' \in Seq(Records) /\ Placed'
    BY <1>0, <1>11, CrashInRedeliverUpdates DEF Restored, Appended, Placed
  <2>. QED  BY <1>0, <1>11, <2>1, Limits DEF CrashInRedeliver, Break, Counts
<1>12. CASE UNCHANGED vars
  BY <1>0, <1>12 DEF vars, Typed, Placed, Counts, Copies
<1>. QED
  BY <1>1, <1>2, <1>3, <1>4, <1>5, <1>6, <1>7, <1>8, <1>9, <1>10, <1>11, <1>12
     DEF Next, Progress

\* Typed is an invariant.
LEMMA TypedInvariant == Spec => []Typed
  BY InitTyped, NextTyped, PTL DEF Spec

\* Every variable keeps its type: a copy holds a slot exactly while its handler
\* runs, and no crash leaves a handler behind.
THEOREM TypeCorrect == Spec => []TypeOK
<1>1. Typed => TypeOK
  BY DEF Typed
<1>. QED  BY <1>1, TypedInvariant, PTL

-----------------------------------------------------------------------------
\* How many copies of a message there are.

Live(m) == {c \in CopiesOf(m) : copies[c].place # "gone"}

\* Only a crash, in a redelivery, adds one.
Counted == \A m \in Messages : Cardinality(Live(m)) <= 1 + crashes

\* Every set of copies is finite.
LEMMA LiveFinite ==
    ASSUME Typed, NEW S, S \subseteq Copies
    PROVE  IsFiniteSet(S) /\ Cardinality(S) \in Nat
<1>1. IsFiniteSet(Copies)
  BY FS_Interval, LenProperties DEF Typed, Copies
<1>. QED  BY <1>1, FS_Subset, FS_CardinalityType

\* The step makes no copy, and none that is gone comes back.
Keeps ==
    /\ Copies' = Copies
    /\ crashes' \in {crashes, crashes + 1}
    /\ \A i \in Copies :
          copies'[i].msg = copies[i].msg /\ (copies[i].place = "gone" => copies'[i].place = "gone")

\* Each step makes a copy only in a redelivery.
LEMMA StepShapes ==
    ASSUME Typed, [Next]_vars
    PROVE  Keeps \/ \E c \in Copies : Redeliver(c) \/ CrashInRedeliver(c)
<1>1. ASSUME NEW c \in Copies, NEW place, NEW step, NEW attempt, NEW parking,
             Updates(c, place, step, attempt, parking), UNCHANGED crashes,
             copies[c].place = "gone" => place = "gone"
      PROVE  Keeps
  BY <1>1 DEF Updates, Moved, Others, Keeps
<1>0. \A c \in Copies, step \in {"consuming", "failed", "backoff"} :
         At(c, step) => copies[c].place # "gone"
  BY TypedIs DEF At, Placed
<1>2. ASSUME NEW c \in Copies, DelayPasses(c) PROVE Keeps
  BY <1>1, <1>2, DelayPassesUpdates DEF DelayPasses
<1>3. ASSUME NEW c \in Copies, Deliver(c) PROVE Keeps
  BY <1>1, <1>3, DeliverUpdates DEF Deliver
<1>4. ASSUME NEW c \in Copies, ConsumeReturns(c) PROVE Keeps
  BY <1>1, <1>4, GotoUpdates DEF ConsumeReturns
<1>5. ASSUME NEW c \in Copies, ConsumeThrows(c) PROVE Keeps
  BY <1>1, <1>5, ThrowsUpdates DEF ConsumeThrows
<1>6. ASSUME NEW c \in Copies, ConsumeAgain(c) PROVE Keeps
  BY <1>1, <1>6, GotoUpdates DEF ConsumeAgain
<1>7. ASSUME NEW c \in Copies, Park(c) PROVE Keeps
  BY <1>1, <1>7, ParkUpdates DEF Park
<1>8. ASSUME NEW c \in Copies, SendToErrorQueue(c) PROVE Keeps
  BY <1>1, <1>8, SendUpdates DEF SendToErrorQueue
<1>9. ASSUME NEW c \in Copies, Ack(c) PROVE Keeps
  BY <1>1, <1>9, AckUpdates DEF Ack
<1>10. CASE Crash
  BY <1>10, CrashUpdates DEF Crash, Break, Restored, Keeps
<1>11. CASE UNCHANGED vars
  BY <1>11 DEF vars, Keeps, Copies
<1>. QED
  BY <1>2, <1>3, <1>4, <1>5, <1>6, <1>7, <1>8, <1>9, <1>10, <1>11 DEF Next, Progress

\* At first there is one copy of each message.
LEMMA InitCounted == Init => Counted
<1>. SUFFICES ASSUME Init, NEW m \in Messages PROVE Cardinality(Live(m)) <= 1 + crashes
  BY DEF Counted
<1>1. \A c, d \in Live(m) : c = d
  BY InitCopies DEF Live, CopiesOf
<1>0. crashes = 0
  BY DEF Init
<1>2. CASE Live(m) = {}
  <2>1. Cardinality(Live(m)) = 0
    BY <1>2, FS_EmptySet
  <2>. QED  BY <1>0, <2>1
<1>3. CASE Live(m) # {}
  <2>1. PICK c : Live(m) = {c}
    BY <1>1, <1>3
  <2>2. Cardinality(Live(m)) = 1
    BY <2>1, FS_Singleton
  <2>. QED  BY <1>0, <2>2
<1>. QED  BY <1>2, <1>3

\* Every step keeps the count.
LEMMA NextCounted == Typed /\ Typed' /\ Counted /\ [Next]_vars => Counted'
<1>. SUFFICES ASSUME Typed, Typed', Counted, [Next]_vars, NEW m \in Messages
              PROVE  Cardinality(Live(m)') <= 1 + crashes'
  BY DEF Counted
<1>0. /\ IsFiniteSet(Live(m)) /\ Cardinality(Live(m)) \in Nat
      /\ Cardinality(Live(m)) <= 1 + crashes /\ crashes \in Nat
  <2>1. Live(m) \subseteq Copies
    BY DEF Live, CopiesOf
  <2>2. crashes \in Nat
    BY Limits DEF Typed, TypeOK
  <2>. QED  BY <2>1, <2>2, LiveFinite DEF Counted
<1>1. CASE Keeps
  <2>1. Live(m)' \subseteq Live(m)
    BY <1>1 DEF Keeps, Live, CopiesOf
  <2>2. /\ Cardinality(Live(m)') <= Cardinality(Live(m)) /\ Cardinality(Live(m)') \in Nat
    BY <1>0, <2>1, FS_Subset, FS_CardinalityType
  <2>. QED  BY <1>0, <1>1, <2>2 DEF Keeps
<1>2. ASSUME NEW c \in Copies, Redeliver(c)
      PROVE  Cardinality(Live(m)') <= 1 + crashes'
  <2>. DEFINE n == Len(copies) + 1
  <2>1. /\ Copies' = Copies \cup {n} /\ n \notin Copies
        /\ copies'[c].place = "gone" /\ copies'[c].msg = copies[c].msg
        /\ copies'[n].msg = copies[c].msg /\ Others(c)
        /\ copies[c].place # "gone" /\ UNCHANGED crashes
    BY <1>2, RedeliverUpdates, TypedIs DEF Moved, Appended, Redeliver, At, Placed
  <2>. HIDE DEF n
  <2>2. CASE copies[c].msg = m
    <3>1. Live(m)' \subseteq (Live(m) \ {c}) \cup {n} /\ c \in Live(m) /\ n \notin Live(m)
      BY <2>1, <2>2 DEF Live, CopiesOf, Others
    <3>2. /\ IsFiniteSet((Live(m) \ {c}) \cup {n})
          /\ Cardinality((Live(m) \ {c}) \cup {n}) = Cardinality(Live(m))
      <4>. DEFINE rest == Live(m) \ {c}
      <4>1. IsFiniteSet(rest) /\ Cardinality(rest) = Cardinality(Live(m)) - 1
        BY <1>0, <3>1, FS_RemoveElement
      <4>2. n \notin rest
        BY <3>1
      <4>. HIDE DEF rest
      <4>3. IsFiniteSet(rest \cup {n}) /\ Cardinality(rest \cup {n}) = Cardinality(rest) + 1
        BY <4>1, <4>2, FS_AddElement
      <4>. QED  BY <1>0, <4>1, <4>3 DEF rest
    <3>3. Cardinality(Live(m)') <= Cardinality(Live(m)) /\ Cardinality(Live(m)') \in Nat
      BY <3>1, <3>2, FS_Subset, FS_CardinalityType
    <3>. QED  BY <1>0, <2>1, <3>3
  <2>3. CASE copies[c].msg # m
    <3>1. Live(m)' = Live(m)
      BY <2>1, <2>3 DEF Live, CopiesOf, Others
    <3>. QED  BY <1>0, <2>1, <3>1
  <2>. QED  BY <2>2, <2>3
<1>3. ASSUME NEW c \in Copies, CrashInRedeliver(c)
      PROVE  Cardinality(Live(m)') <= 1 + crashes'
  <2>. DEFINE n == Len(copies) + 1
  <2>1. /\ Copies' = Copies \cup {n} /\ n \notin Copies /\ crashes' = crashes + 1
        /\ \A i \in Copies : /\ copies'[i].msg = copies[i].msg
                             /\ copies[i].place = "gone" => copies'[i].place = "gone"
    BY <1>3, CrashInRedeliverUpdates DEF Restored, Appended, CrashInRedeliver, Break
  <2>. HIDE DEF n
  <2>2. Live(m)' \subseteq Live(m) \cup {n}
    BY <2>1 DEF Live, CopiesOf
  <2>3. /\ IsFiniteSet(Live(m) \cup {n})
        /\ Cardinality(Live(m) \cup {n}) \in {Cardinality(Live(m)), Cardinality(Live(m)) + 1}
    BY <1>0, FS_AddElement
  <2>4. Cardinality(Live(m)') <= Cardinality(Live(m)) + 1 /\ Cardinality(Live(m)') \in Nat
    BY <1>0, <2>2, <2>3, FS_Subset, FS_CardinalityType
  <2>. QED  BY <1>0, <2>1, <2>4
<1>. QED  BY <1>1, <1>2, <1>3, StepShapes

\* Counted is an invariant.
LEMMA CountedInvariant == Spec => []Counted
  BY InitCounted, TypedInvariant, NextCounted, PTL DEF Spec

-----------------------------------------------------------------------------
\* How many calls of Consume are ahead of a message, as a set: the provers cannot
\* unfold a sum over the copies, but they know the cardinality of a union.

\* Calls that the redeliveries of a copy with this count will make ...
Later(r) == (MaxRetries + 1) * (MaxRedeliveries - r)

\* ... and those of this attempt and its retries.
Own(copy) ==
    CASE copy.step = "none" -> MaxRetries + 1
      [] copy.step = "consuming" -> MaxRetries - copy.attempt
      [] copy.step = "backoff" -> MaxRetries + 1 - copy.attempt
      [] OTHER -> 0

Left(copy) == IF copy.step \in AckSteps THEN 0 ELSE Later(copy.redelivery) + Own(copy)

Ahead(m) == {t \in Live(m) \X (1 .. Schedule) : t[2] <= Left(copies[t[1]])}

Budgeted ==
    \A m \in Messages :
        2 * (calls[m] + Cardinality(Ahead(m))) <= Schedule * (2 + crashes * (crashes + 1))

\* What a redelivery leaves for the next, and what there is at most.
LEMMA LaterFalls ==
    /\ Schedule \in Nat /\ Schedule = Later(0) + MaxRetries + 1
    /\ \A r \in 0 .. MaxRedeliveries :
          /\ Later(r) \in Nat /\ Later(r) + MaxRetries + 1 <= Schedule
          /\ r < MaxRedeliveries => Later(r) = Later(r + 1) + MaxRetries + 1
<1>. DEFINE k == MaxRetries + 1
            d == MaxRedeliveries
<1>1. k \in Nat /\ d \in Nat /\ k = MaxRetries + 1
  BY Limits
<1>2. Schedule = k * (d + 1) /\ \A r : Later(r) = k * (d - r)
  BY DEF Schedule, Later
<1>3. MaxRedeliveries = d
  OBVIOUS
<1>. HIDE DEF k, d
<1>4. k * (d + 1) \in Nat /\ k * (d + 1) = k * (d - 0) + k
  BY <1>1
<1>5. ASSUME NEW r \in 0 .. d
      PROVE  k * (d - r) \in Nat /\ k * (d - r) + k <= k * (d + 1)
  <2>1. d - r \in Nat /\ r \in Nat /\ k * r \in Nat
    BY <1>1
  <2>2. k * (d - r) \in Nat /\ k * (d - r) = k * d - k * r
    BY <1>1, <2>1
  <2>3. k * (d + 1) = k * d + k /\ k * d \in Nat
    BY <1>1
  <2>. QED  BY <1>1, <2>1, <2>2, <2>3
<1>6. ASSUME NEW r \in 0 .. d, r < d
      PROVE  k * (d - r) = k * (d - (r + 1)) + k
  BY <1>1, <1>6
<1>7. Schedule \in Nat /\ Schedule = Later(0) + k
  BY <1>2, <1>4
<1>8. ASSUME NEW r \in 0 .. d
      PROVE  Later(r) \in Nat /\ Later(r) + k <= Schedule
  BY <1>2, <1>5
<1>9. ASSUME NEW r \in 0 .. d, r < d
      PROVE  Later(r) = Later(r + 1) + k
  BY <1>2, <1>6, <1>9
<1>10. \A r \in 0 .. MaxRedeliveries : Later(r) \in Nat
  BY <1>3, <1>8
<1>. QED  BY <1>1, <1>3, <1>7, <1>8, <1>9, <1>10, Limits

\* A copy never has more ahead of it than the schedule.
LEMMA LeftIs ==
    ASSUME NEW copy \in Records
    PROVE  Left(copy) \in 0 .. Schedule
<1>1. /\ copy.redelivery \in 0 .. MaxRedeliveries /\ copy.attempt \in 0 .. MaxRetries
      /\ MaxRetries \in Nat
  BY Limits DEF Records
<1>2. Own(copy) \in 0 .. MaxRetries + 1
  BY <1>1 DEF Own
<1>3. /\ Later(copy.redelivery) \in Nat /\ Schedule \in Nat
      /\ Later(copy.redelivery) + MaxRetries + 1 <= Schedule
  BY <1>1, LaterFalls
<1>. QED  BY <1>1, <1>2, <1>3 DEF Left

\* The calls ahead of a message are a finite set.
LEMMA AheadFinite ==
    ASSUME Typed, NEW m
    PROVE  IsFiniteSet(Ahead(m)) /\ Cardinality(Ahead(m)) \in Nat
<1>1. IsFiniteSet(Live(m)) /\ IsFiniteSet(1 .. Schedule)
  <2>1. Live(m) \subseteq Copies
    BY DEF Live, CopiesOf
  <2>. QED  BY <2>1, LiveFinite, LaterFalls, FS_Interval
<1>2. IsFiniteSet(Live(m) \X (1 .. Schedule))
  BY <1>1, FS_Product
<1>3. Ahead(m) \subseteq Live(m) \X (1 .. Schedule)
  BY DEF Ahead
<1>. QED  BY <1>2, <1>3, FS_Subset, FS_CardinalityType

\* What a step that makes no copy and no call does to it.
LEMMA AheadShrinks ==
    ASSUME Typed, Typed', NEW m, Copies' = Copies,
           \A i \in Copies : /\ copies'[i].msg = copies[i].msg
                             /\ copies[i].place = "gone" => copies'[i].place = "gone"
                             /\ \/ copies'[i].place = "gone"
                                \/ Left(copies'[i]) <= Left(copies[i])
    PROVE  /\ Ahead(m)' \subseteq Ahead(m)
           /\ Cardinality(Ahead(m)') <= Cardinality(Ahead(m)) /\ Cardinality(Ahead(m)') \in Nat
<1>1. \A i \in Copies : Left(copies[i]) \in Nat /\ copies'[i] \in Records
  BY RecordOf, LeftIs, LaterFalls, ElementOfSeq DEF Typed, Copies
<1>2. \A i \in Copies : Left(copies'[i]) \in Nat
  BY <1>1, LeftIs, LaterFalls
<1>3. Ahead(m)' = {t \in Live(m)' \X (1 .. Schedule) : t[2] <= Left(copies'[t[1]])}
  BY DEF Ahead
<1>4. Live(m)' \subseteq Live(m) /\ Live(m)' \subseteq Copies
  BY DEF Live, CopiesOf
<1>5. \A i \in Live(m)' : copies'[i].place # "gone"
  BY DEF Live
<1>6. ASSUME NEW i \in Live(m)', NEW k \in 1 .. Schedule, k <= Left(copies'[i])
      PROVE  k <= Left(copies[i])
  BY <1>1, <1>2, <1>4, <1>5, <1>6
<1>7. Ahead(m)' \subseteq Ahead(m)
  BY <1>3, <1>4, <1>6 DEF Ahead
<1>. QED  BY <1>7, AheadFinite, FS_Subset, FS_CardinalityType

\* What a call does to it: one is no longer ahead.
LEMMA AheadFalls ==
    ASSUME Typed, Typed', NEW m, Copies' = Copies, NEW c \in Live(m), c \in Live(m)',
           \A i \in Copies : /\ copies'[i].msg = copies[i].msg
                             /\ copies[i].place = "gone" => copies'[i].place = "gone"
                             /\ \/ copies'[i].place = "gone"
                                \/ Left(copies'[i]) <= Left(copies[i]),
           Left(copies'[c]) < Left(copies[c])
    PROVE  Cardinality(Ahead(m)') + 1 <= Cardinality(Ahead(m))
<1>. DEFINE t == <<c, Left(copies[c])>>
<1>1. c \in Copies
  BY DEF Live, CopiesOf
<1>2. /\ Left(copies[c]) \in 0 .. Schedule /\ Left(copies'[c]) \in 0 .. Schedule
      /\ Schedule \in Nat
  BY <1>1, RecordOf, LeftIs, LaterFalls, ElementOfSeq DEF Typed, Copies
<1>3. t \in Ahead(m) /\ t \notin Ahead(m)'
  <2>1. Left(copies[c]) \in 1 .. Schedule
    BY <1>2
  <2>2. t \in Ahead(m)
    BY <2>1 DEF Ahead
  <2>3. ~(Left(copies[c]) <= Left(copies'[c]))
    BY <1>2
  <2>. QED  BY <2>2, <2>3 DEF Ahead
<1>4. Ahead(m)' \subseteq Ahead(m)
  BY AheadShrinks
<1>. HIDE DEF t
<1>5. Ahead(m)' \subseteq Ahead(m) \ {t}
  BY <1>3, <1>4
<1>6. /\ IsFiniteSet(Ahead(m) \ {t}) /\ IsFiniteSet(Ahead(m))
      /\ Cardinality(Ahead(m)) \in Nat
      /\ Cardinality(Ahead(m) \ {t}) = Cardinality(Ahead(m)) - 1
  BY <1>3, AheadFinite, FS_RemoveElement
<1>7. /\ Cardinality(Ahead(m)') <= Cardinality(Ahead(m) \ {t})
      /\ IsFiniteSet(Ahead(m)')
  BY <1>5, <1>6, FS_Subset
<1>8. Cardinality(Ahead(m)') \in Nat
  BY <1>7, FS_CardinalityType
<1>. QED  BY <1>6, <1>7, <1>8

\* The calls of one copy.
LEMMA Column ==
    ASSUME NEW c, NEW k \in Nat
    PROVE  IsFiniteSet({c} \X (1 .. k)) /\ Cardinality({c} \X (1 .. k)) = k
<1>1. IsFiniteSet(1 .. k) /\ Cardinality(1 .. k) = k
  BY FS_Interval
<1>2. IsFiniteSet({c}) /\ Cardinality({c}) = 1
  BY FS_Singleton
<1>3. /\ IsFiniteSet({c} \X (1 .. k))
      /\ Cardinality({c} \X (1 .. k)) = Cardinality({c}) * Cardinality(1 .. k)
  BY <1>1, <1>2, FS_Product
<1>4. Cardinality({c} \X (1 .. k)) = 1 * k
  BY <1>1, <1>2, <1>3
<1>. QED  BY <1>3, <1>4

\* The calls of one copy, moved to another.
LEMMA Relabelled ==
    ASSUME NEW S, IsFiniteSet(S), NEW c, NEW n, NEW k \in Nat, {c} \X (1 .. k) \subseteq S
    PROVE  /\ IsFiniteSet((S \ ({c} \X (1 .. k))) \cup ({n} \X (1 .. k)))
           /\ Cardinality((S \ ({c} \X (1 .. k))) \cup ({n} \X (1 .. k))) <= Cardinality(S)
<1>. DEFINE old == {c} \X (1 .. k)
            new == {n} \X (1 .. k)
            rest == S \ old
<1>1. /\ IsFiniteSet(old) /\ Cardinality(old) = k /\ IsFiniteSet(new) /\ Cardinality(new) = k
  BY Column
<1>2. S \cap old = old
  OBVIOUS
<1>. HIDE DEF old, new
<1>3. IsFiniteSet(rest) /\ Cardinality(rest) = Cardinality(S) - k
  <2>1. /\ IsFiniteSet(S \ old)
        /\ Cardinality(S \ old) = Cardinality(S) - Cardinality(S \cap old)
    BY FS_Difference
  <2>. QED  BY <1>1, <1>2, <2>1
<1>4. Cardinality(S) \in Nat /\ Cardinality(rest) \in Nat
  BY <1>3, FS_CardinalityType
<1>. HIDE DEF rest
<1>5. /\ IsFiniteSet(rest \cup new)
      /\ Cardinality(rest \cup new) = Cardinality(rest) + Cardinality(new) - Cardinality(rest \cap new)
  BY <1>1, <1>3, FS_Union
<1>6. Cardinality(rest \cap new) \in Nat
  BY <1>3, FS_Intersection, FS_CardinalityType
<1>7. Cardinality(rest \cup new) <= Cardinality(S)
  BY <1>1, <1>3, <1>4, <1>5, <1>6
<1>. QED  BY <1>5, <1>7 DEF rest, old, new

\* What a crash adds: at most a schedule for each copy that is left.
LEMMA AheadRises ==
    ASSUME Typed, Counted, NEW m \in Messages, NEW A, IsFiniteSet(A),
           Cardinality(A) <= Cardinality(Ahead(m)),
           NEW T, T \subseteq A \cup (Live(m) \X (1 .. Schedule))
    PROVE  Cardinality(T) <= Cardinality(Ahead(m)) + Schedule * (1 + crashes)
<1>. DEFINE all == Live(m) \X (1 .. Schedule)
<1>1. /\ IsFiniteSet(Live(m)) /\ Cardinality(Live(m)) \in Nat
      /\ Cardinality(Live(m)) <= 1 + crashes
  <2>1. Live(m) \subseteq Copies
    BY DEF Live, CopiesOf
  <2>. QED  BY <2>1, LiveFinite DEF Counted
<1>2. Schedule \in Nat /\ crashes \in Nat
  BY LaterFalls, Limits DEF Typed, TypeOK
<1>3. IsFiniteSet(1 .. Schedule) /\ Cardinality(1 .. Schedule) = Schedule
  BY <1>2, FS_Interval
<1>4. IsFiniteSet(all) /\ Cardinality(all) = Cardinality(Live(m)) * Schedule
  BY <1>1, <1>3, FS_Product
<1>5. Cardinality(all) <= Schedule * (1 + crashes) /\ Cardinality(all) \in Nat
  <2>. DEFINE x == Cardinality(Live(m))
              y == 1 + crashes
              k == Schedule
  <2>1. x \in Nat /\ y \in Nat /\ k \in Nat /\ x <= y /\ Cardinality(all) = x * k
    BY <1>1, <1>2, <1>4
  <2>. HIDE DEF x, y, k, all
  <2>2. x * k <= k * y /\ x * k \in Nat
    BY <2>1
  <2>. QED  BY <2>1, <2>2 DEF y, k
<1>. HIDE DEF all
<1>6. /\ IsFiniteSet(A \cup all)
      /\ Cardinality(A \cup all) = Cardinality(A) + Cardinality(all) - Cardinality(A \cap all)
  BY <1>4, FS_Union
<1>7. Cardinality(A) \in Nat /\ Cardinality(A \cap all) \in Nat
  BY FS_Intersection, FS_CardinalityType
<1>8. IsFiniteSet(T) /\ Cardinality(T) <= Cardinality(A \cup all)
  BY <1>6, FS_Subset DEF all
<1>9. Cardinality(T) \in Nat /\ Cardinality(Ahead(m)) \in Nat
  BY <1>8, AheadFinite, FS_CardinalityType
<1>10. Schedule * (1 + crashes) \in Nat
  BY <1>2
<1>11. Cardinality(A \cup all) <= Cardinality(Ahead(m)) + Schedule * (1 + crashes)
  BY <1>5, <1>6, <1>7, <1>9, <1>10
<1>12. Cardinality(A \cup all) \in Nat
  BY <1>6, FS_CardinalityType
<1>. QED  BY <1>8, <1>9, <1>10, <1>11, <1>12

\* The bound after one crash more.
LEMMA BoundRises ==
    ASSUME NEW k \in Nat, NEW n \in Nat
    PROVE  /\ k * (2 + n * (n + 1)) \in Nat
           /\ k * (2 + (n + 1) * (n + 1 + 1)) = k * (2 + n * (n + 1)) + 2 * (k * (1 + n))
<1>. DEFINE x == n * (n + 1)
<1>1. x \in Nat /\ (n + 1) * (n + 1 + 1) = x + 2 * (1 + n)
  OBVIOUS
<1>. HIDE DEF x
<1>2. k * (2 + (x + 2 * (1 + n))) = k * (2 + x) + 2 * (k * (1 + n))
  BY <1>1
<1>3. k * (2 + x) \in Nat
  BY <1>1
<1>. QED  BY <1>1, <1>2, <1>3 DEF x

\* At first the schedule is ahead of every message.
LEMMA InitBudgeted == Init => Budgeted
<1>. SUFFICES ASSUME Init, NEW m \in Messages
              PROVE  2 * (calls[m] + Cardinality(Ahead(m)))
                        <= Schedule * (2 + crashes * (crashes + 1))
  BY DEF Budgeted
<1>1. calls[m] = 0 /\ crashes = 0 /\ Schedule \in Nat
  BY LaterFalls DEF Init
<1>2. \A c, d \in Live(m) : c = d
  BY InitCopies DEF Live, CopiesOf
<1>3. PICK c : Live(m) \subseteq {c}
  <2>1. CASE Live(m) = {}
    BY <2>1
  <2>2. ASSUME NEW c \in Live(m)
        PROVE  Live(m) \subseteq {c}
    BY <1>2
  <2>. QED  BY <2>1, <2>2
<1>4. Ahead(m) \subseteq {c} \X (1 .. Schedule)
  BY <1>3 DEF Ahead
<1>5. /\ IsFiniteSet({c} \X (1 .. Schedule))
      /\ Cardinality({c} \X (1 .. Schedule)) = Schedule
  BY <1>1, Column
<1>6. Cardinality(Ahead(m)) <= Schedule /\ Cardinality(Ahead(m)) \in Nat
  <2>1. IsFiniteSet(Ahead(m)) /\ Cardinality(Ahead(m)) <= Cardinality({c} \X (1 .. Schedule))
    BY <1>4, <1>5, FS_Subset
  <2>. QED  BY <1>5, <2>1, FS_CardinalityType
<1>7. Schedule * (2 + 0 * (0 + 1)) = 2 * Schedule
  BY <1>1
<1>. QED  BY <1>1, <1>6, <1>7

\* A step that changes one copy, makes no call and does not crash.
LEMMA QuietBudgeted ==
    ASSUME Typed, Typed', Budgeted, UNCHANGED <<calls, crashes>>, Copies' = Copies,
           \A i \in Copies : /\ copies'[i].msg = copies[i].msg
                             /\ copies[i].place = "gone" => copies'[i].place = "gone"
                             /\ \/ copies'[i].place = "gone"
                                \/ Left(copies'[i]) <= Left(copies[i])
    PROVE  Budgeted'
<1>. SUFFICES ASSUME NEW m \in Messages
              PROVE  2 * (calls'[m] + Cardinality(Ahead(m)'))
                        <= Schedule * (2 + crashes' * (crashes' + 1))
  BY DEF Budgeted
<1>1. /\ Cardinality(Ahead(m)') <= Cardinality(Ahead(m))
      /\ Cardinality(Ahead(m)) \in Nat /\ Cardinality(Ahead(m)') \in Nat
  BY AheadShrinks, AheadFinite
<1>2. calls[m] \in Nat /\ crashes \in Nat /\ calls'[m] = calls[m] /\ crashes' = crashes
  BY Limits DEF Typed, TypeOK
<1>3. 2 * (calls[m] + Cardinality(Ahead(m))) <= Schedule * (2 + crashes * (crashes + 1))
  BY DEF Budgeted
<1>. DEFINE b == Schedule * (2 + crashes * (crashes + 1))
<1>4. b \in Nat
  BY <1>2, LaterFalls, BoundRises
<1>5. /\ 2 * (calls[m] + Cardinality(Ahead(m))) <= b
      /\ b = Schedule * (2 + crashes' * (crashes' + 1))
  BY <1>2, <1>3
<1>. HIDE DEF b
<1>. QED  BY <1>1, <1>2, <1>4, <1>5

\* A step that calls Consume.
LEMMA CallBudgeted ==
    ASSUME Typed, Typed', Budgeted, UNCHANGED crashes, Copies' = Copies,
           NEW c \in Copies, CallConsume(c), Others(c),
           copies'[c].msg = copies[c].msg, Left(copies'[c]) < Left(copies[c]),
           copies[c].place # "gone", copies'[c].place # "gone"
    PROVE  Budgeted'
<1>. SUFFICES ASSUME NEW m \in Messages
              PROVE  2 * (calls'[m] + Cardinality(Ahead(m)'))
                        <= Schedule * (2 + crashes' * (crashes' + 1))
  BY DEF Budgeted
<1>1. \A i \in Copies : /\ copies'[i].msg = copies[i].msg
                        /\ copies[i].place = "gone" => copies'[i].place = "gone"
                        /\ Left(copies'[i]) <= Left(copies[i])
  <2>1. \A i \in Copies : Left(copies[i]) \in Nat
    BY RecordOf, LeftIs, LaterFalls
  <2>2. Left(copies'[c]) <= Left(copies[c])
    <3>1. copies'[c] \in Records
      BY ElementOfSeq DEF Typed, Copies
    <3>. QED  BY <2>1, <3>1, LeftIs, LaterFalls
  <2>. QED  BY <2>1, <2>2 DEF Others
<1>2. /\ Cardinality(Ahead(m)') <= Cardinality(Ahead(m))
      /\ Cardinality(Ahead(m)) \in Nat /\ Cardinality(Ahead(m)') \in Nat
  BY <1>1, AheadShrinks, AheadFinite
<1>3. calls'[m] + Cardinality(Ahead(m)') <= calls[m] + Cardinality(Ahead(m))
  <2>1. calls[m] \in Nat /\ calls'[m] = IF m = copies[c].msg THEN calls[m] + 1 ELSE calls[m]
    BY CallCounts DEF Typed, TypeOK
  <2>2. CASE m = copies[c].msg
    <3>1. c \in Live(m) /\ c \in Live(m)'
      BY <2>2 DEF Live, CopiesOf
    <3>2. Cardinality(Ahead(m)') + 1 <= Cardinality(Ahead(m))
      BY <1>1, <3>1, AheadFalls
    <3>. QED  BY <1>2, <2>1, <2>2, <3>2
  <2>3. CASE m # copies[c].msg
    BY <1>2, <2>1, <2>3
  <2>. QED  BY <2>2, <2>3
<1>4. calls[m] \in Nat /\ calls'[m] \in Nat /\ crashes \in Nat /\ crashes' = crashes
  BY CallCounts, Limits DEF Typed, TypeOK
<1>5. 2 * (calls[m] + Cardinality(Ahead(m))) <= Schedule * (2 + crashes * (crashes + 1))
  BY DEF Budgeted
<1>. DEFINE b == Schedule * (2 + crashes * (crashes + 1))
<1>6. b \in Nat
  BY <1>4, LaterFalls, BoundRises
<1>7. /\ 2 * (calls[m] + Cardinality(Ahead(m))) <= b
      /\ b = Schedule * (2 + crashes' * (crashes' + 1))
  BY <1>4, <1>5
<1>. HIDE DEF b
<1>. QED  BY <1>2, <1>3, <1>4, <1>6, <1>7

\* A redelivery hands what is ahead of the copy over to the next one.
LEMMA HandedOver ==
    ASSUME Typed, Typed', NEW m, NEW c \in Copies, copies[c].step = "failed",
           CanRedeliver(c), Appended(c)
    PROVE  \A t \in Ahead(m)' :
              t[1] = Len(copies) + 1 =>
                 c \in CopiesOf(m) /\ t \in {Len(copies) + 1} \X (1 .. Left(copies[c]))
<1>. DEFINE n == Len(copies) + 1
<1>1. Left(copies'[n]) = Left(copies[c])
  <2>1. /\ copies[c].redelivery \in 0 .. MaxRedeliveries
        /\ copies[c].redelivery < MaxRedeliveries
    BY RecordOf DEF Records, CanRedeliver
  <2>2. Left(copies'[n]) = Later(copies[c].redelivery + 1) + MaxRetries + 1
    <3>1. /\ copies'[n].step = "none" /\ copies'[n].redelivery = copies[c].redelivery + 1
          /\ copies[c].redelivery + 1 \in 0 .. MaxRedeliveries
      BY <2>1, Limits DEF Appended
    <3>2. Own(copies'[n]) = MaxRetries + 1
      BY <3>1 DEF Own
    <3>3. Left(copies'[n]) = Later(copies[c].redelivery + 1) + (MaxRetries + 1)
      BY <3>1, <3>2 DEF Left, AckSteps
    <3>4. Later(copies[c].redelivery + 1) \in Nat
      BY <3>1, LaterFalls
    <3>. QED  BY <3>3, <3>4, Limits
  <2>3. Left(copies[c]) = Later(copies[c].redelivery)
    BY LaterFalls, <2>1 DEF Left, Own, AckSteps
  <2>. QED  BY <2>1, <2>2, <2>3, LaterFalls
<1>2. ASSUME NEW t \in Ahead(m)', t[1] = n
      PROVE  c \in CopiesOf(m) /\ t \in {n} \X (1 .. Left(copies[c]))
  <2>1. /\ t \in Live(m)' \X (1 .. Schedule) /\ t[2] <= Left(copies'[t[1]])
    BY DEF Ahead
  <2>2. n \in CopiesOf(m)' /\ copies'[n].msg = copies[c].msg
    BY <1>2, <2>1 DEF Live, Appended
  <2>3. c \in CopiesOf(m)
    BY <2>2 DEF CopiesOf
  <2>4. Left(copies[c]) \in Nat
    BY RecordOf, LeftIs, LaterFalls
  <2>5. t[2] \in 1 .. Left(copies[c])
    BY <1>1, <1>2, <2>1, <2>4, LaterFalls
  <2>. QED  BY <1>2, <2>1, <2>3, <2>5
<1>. QED  BY <1>2

\* A redelivery keeps the budget.
LEMMA RedeliverBudgeted ==
    ASSUME Typed, Typed', Budgeted, NEW c \in Copies, Redeliver(c)
    PROVE  Budgeted'
<1>. SUFFICES ASSUME NEW m \in Messages
              PROVE  2 * (calls'[m] + Cardinality(Ahead(m)'))
                        <= Schedule * (2 + crashes' * (crashes' + 1))
  BY DEF Budgeted
<1>. DEFINE n == Len(copies) + 1
            k == Left(copies[c])
            old == {c} \X (1 .. k)
            new == {n} \X (1 .. k)
<1>1. /\ Moved(c, "gone", "none", copies[c].attempt, copies[c].parking)
      /\ Others(c) /\ Appended(c) /\ CanRedeliver(c) /\ copies[c].step = "failed"
  BY RedeliverUpdates DEF Redeliver, At
<1>2. \A i \in Live(m)' : i # n => i # c /\ i \in Live(m)
  BY <1>1 DEF Live, CopiesOf, Appended, Moved, Others
<1>3. \A t \in Ahead(m)' : t[1] = n => c \in CopiesOf(m) /\ t \in new
  BY <1>1, <1>2, HandedOver
<1>4. \A t \in Ahead(m)' : t[1] # n => t \in Ahead(m) /\ t[1] # c
  BY <1>1, <1>2 DEF Ahead, Live, CopiesOf, Others
<1>5. k \in 0 .. Schedule /\ Schedule \in Nat
  BY RecordOf, LeftIs, LaterFalls
<1>6. c \in CopiesOf(m) => old \subseteq Ahead(m)
  <2>1. copies[c].place # "gone"
    BY <1>1, TypedIs DEF Placed
  <2>2. c \in CopiesOf(m) => c \in Live(m)
    BY <2>1 DEF Live
  <2>3. \A x \in 1 .. k : x \in 1 .. Schedule
    BY <1>5
  <2>. QED  BY <2>2, <2>3 DEF Ahead
<1>7. IsFiniteSet(Ahead(m)) /\ Cardinality(Ahead(m)) \in Nat
  BY AheadFinite
<1>. HIDE DEF n, k
<1>8. Cardinality(Ahead(m)') <= Cardinality(Ahead(m)) /\ Cardinality(Ahead(m)') \in Nat
  <2>1. CASE c \in CopiesOf(m)
    <3>1. Ahead(m)' \subseteq (Ahead(m) \ old) \cup new
      BY <1>3, <1>4
    <3>4. k \in Nat /\ {c} \X (1 .. k) \subseteq Ahead(m)
      BY <1>5, <1>6, <2>1
    <3>2. /\ IsFiniteSet((Ahead(m) \ old) \cup new)
          /\ Cardinality((Ahead(m) \ old) \cup new) <= Cardinality(Ahead(m))
      BY <1>7, <3>4, Relabelled
    <3>3. /\ IsFiniteSet(Ahead(m)')
          /\ Cardinality(Ahead(m)') <= Cardinality((Ahead(m) \ old) \cup new)
      BY <3>1, <3>2, FS_Subset
    <3>. QED  BY <1>7, <3>2, <3>3, FS_CardinalityType
  <2>2. CASE c \notin CopiesOf(m)
    <3>1. Ahead(m)' \subseteq Ahead(m)
      BY <1>3, <1>4, <2>2
    <3>. QED  BY <1>7, <3>1, FS_Subset, FS_CardinalityType
  <2>. QED  BY <2>1, <2>2
<1>9. calls[m] \in Nat /\ crashes \in Nat /\ calls'[m] = calls[m] /\ crashes' = crashes
  BY Limits DEF Typed, TypeOK, Redeliver
<1>10. 2 * (calls[m] + Cardinality(Ahead(m))) <= Schedule * (2 + crashes * (crashes + 1))
  BY DEF Budgeted
<1>. DEFINE b == Schedule * (2 + crashes * (crashes + 1))
<1>11. b \in Nat
  BY <1>9, LaterFalls, BoundRises
<1>12. /\ 2 * (calls[m] + Cardinality(Ahead(m))) <= b
       /\ b = Schedule * (2 + crashes' * (crashes' + 1))
  BY <1>9, <1>10
<1>. HIDE DEF b
<1>. QED  BY <1>7, <1>8, <1>9, <1>11, <1>12

\* After a crash, which may come between the two halves of a redelivery.
LEMMA CrashBudgeted ==
    ASSUME Typed, Typed', Counted, Budgeted, NEW m \in Messages, Break, UNCHANGED calls,
           NEW A, IsFiniteSet(A), Cardinality(A) <= Cardinality(Ahead(m)),
           Ahead(m)' \subseteq A \cup (Live(m) \X (1 .. Schedule)), IsFiniteSet(Ahead(m)')
    PROVE  2 * (calls'[m] + Cardinality(Ahead(m)'))
              <= Schedule * (2 + crashes' * (crashes' + 1))
<1>. DEFINE a == Cardinality(Ahead(m))
            z == Cardinality(Ahead(m)')
            b == Schedule * (2 + crashes * (crashes + 1))
            e == Schedule * (2 + crashes' * (crashes' + 1))
            r == Schedule * (1 + crashes)
<1>1. z <= a + r
  BY AheadRises
<1>2. calls[m] \in Nat /\ calls'[m] = calls[m] /\ crashes \in Nat /\ Schedule \in Nat
  BY Limits, LaterFalls DEF Typed, TypeOK
<1>3. a \in Nat /\ z \in Nat
  BY AheadFinite, FS_CardinalityType
<1>4. r \in Nat
  BY <1>2
<1>5. b \in Nat
  BY <1>2, BoundRises
<1>6. e = b + 2 * r
  BY <1>2, BoundRises DEF Break
<1>7. 2 * (calls[m] + a) <= b
  BY DEF Budgeted
<1>. HIDE DEF a, z, b, e, r
<1>8. 2 * (calls'[m] + z) <= e
  BY <1>1, <1>2, <1>3, <1>4, <1>5, <1>6, <1>7
<1>. QED  BY <1>8 DEF z, e

\* A crash in a redelivery keeps the budget.
LEMMA CrashInRedeliverBudgeted ==
    ASSUME Typed, Typed', Counted, Budgeted, NEW c \in Copies, CrashInRedeliver(c)
    PROVE  Budgeted'
<1>. SUFFICES ASSUME NEW m \in Messages
              PROVE  2 * (calls'[m] + Cardinality(Ahead(m)'))
                        <= Schedule * (2 + crashes' * (crashes' + 1))
  BY DEF Budgeted
<1>. DEFINE n == Len(copies) + 1
            k == Left(copies[c])
            old == {c} \X (1 .. k)
            new == {n} \X (1 .. k)
            all == Live(m) \X (1 .. Schedule)
            A == IF c \in CopiesOf(m) THEN (Ahead(m) \ old) \cup new ELSE Ahead(m)
<1>1. /\ Appended(c) /\ CanRedeliver(c) /\ copies[c].step = "failed"
      /\ \A i \in Copies : Restored(i)
  BY CrashInRedeliverUpdates DEF CrashInRedeliver, At
<1>2. \A i \in Live(m)' : i # n => i \in Live(m)
  BY <1>1 DEF Live, CopiesOf, Appended, Restored
<1>3. \A t \in Ahead(m)' : t[1] = n => c \in CopiesOf(m) /\ t \in new
  BY <1>1, HandedOver
<1>4. \A t \in Ahead(m)' : t[1] # n => t \in all
  BY <1>2 DEF Ahead
<1>5. k \in 0 .. Schedule /\ Schedule \in Nat
  BY RecordOf, LeftIs, LaterFalls
<1>6. c \in CopiesOf(m) => old \subseteq Ahead(m)
  <2>1. copies[c].place # "gone"
    BY <1>1, TypedIs DEF Placed
  <2>2. c \in CopiesOf(m) => c \in Live(m)
    BY <2>1 DEF Live
  <2>3. \A x \in 1 .. k : x \in 1 .. Schedule
    BY <1>5
  <2>. QED  BY <2>2, <2>3 DEF Ahead
<1>7. IsFiniteSet(Ahead(m)) /\ Cardinality(Ahead(m)) \in Nat
  BY AheadFinite
<1>. HIDE DEF n, k
<1>8. IsFiniteSet(A) /\ Cardinality(A) <= Cardinality(Ahead(m))
  <2>1. CASE c \in CopiesOf(m)
    <3>1. k \in Nat /\ {c} \X (1 .. k) \subseteq Ahead(m)
      BY <1>5, <1>6, <2>1
    <3>2. /\ IsFiniteSet((Ahead(m) \ old) \cup new)
          /\ Cardinality((Ahead(m) \ old) \cup new) <= Cardinality(Ahead(m))
      BY <1>7, <3>1, Relabelled
    <3>. QED  BY <2>1, <3>2
  <2>2. CASE c \notin CopiesOf(m)
    BY <1>7, <2>2
  <2>. QED  BY <2>1, <2>2
<1>9. Ahead(m)' \subseteq A \cup all
  BY <1>3, <1>4
<1>10. IsFiniteSet(Ahead(m)')
  <2>1. Live(m) \subseteq Copies
    BY DEF Live, CopiesOf
  <2>2. IsFiniteSet(Live(m)) /\ IsFiniteSet(1 .. Schedule)
    BY <1>5, <2>1, LiveFinite, FS_Interval
  <2>3. IsFiniteSet(all)
    BY <2>2, FS_Product
  <2>. HIDE DEF all, A
  <2>4. IsFiniteSet(A \cup all)
    BY <1>8, <2>3, FS_Union
  <2>. QED  BY <1>9, <2>4, FS_Subset
<1>11. Break /\ UNCHANGED calls
  BY DEF CrashInRedeliver
<1>. HIDE DEF A
<1>. QED  BY <1>8, <1>9, <1>10, <1>11, CrashBudgeted

\* Every step that changes one copy and makes none keeps what is ahead.
LEMMA UpdateKeepsLeft ==
    ASSUME Typed, Typed', NEW c \in Copies, NEW place, NEW step, NEW attempt, NEW parking,
           Updates(c, place, step, attempt, parking),
           copies[c].place = "gone" => place = "gone",
           place = "gone" \/ Left(copies'[c]) <= Left(copies[c])
    PROVE  /\ Copies' = Copies
           /\ \A i \in Copies : /\ copies'[i].msg = copies[i].msg
                                /\ copies[i].place = "gone" => copies'[i].place = "gone"
                                /\ \/ copies'[i].place = "gone"
                                   \/ Left(copies'[i]) <= Left(copies[i])
<1>1. \A i \in Copies : Left(copies[i]) \in Nat
  BY RecordOf, LeftIs, LaterFalls
<1>2. \A i \in Copies : copies'[i] = copies[i] => Left(copies'[i]) <= Left(copies[i])
  BY <1>1
<1>. QED  BY <1>2 DEF Updates, Moved, Others

\* What is left to a copy in each step of its handler.
LEMMA LeftOf ==
    ASSUME NEW copy \in Records
    PROVE  /\ Later(copy.redelivery) \in Nat /\ copy.attempt \in 0 .. MaxRetries
           /\ MaxRetries \in Nat
           /\ copy.step = "none" => Left(copy) = Later(copy.redelivery) + MaxRetries + 1
           /\ copy.step = "consuming" =>
                 Left(copy) = Later(copy.redelivery) + (MaxRetries - copy.attempt)
           /\ copy.step = "backoff" =>
                 Left(copy) = Later(copy.redelivery) + (MaxRetries + 1 - copy.attempt)
           /\ copy.step = "failed" => Left(copy) = Later(copy.redelivery)
           /\ copy.step \in {"returned", "parking"} => Left(copy) = 0
<1>1. /\ copy.redelivery \in 0 .. MaxRedeliveries /\ copy.attempt \in 0 .. MaxRetries
      /\ MaxRetries \in Nat
  BY Limits DEF Records
<1>2. Later(copy.redelivery) \in Nat
  BY <1>1, LaterFalls
<1>. QED  BY <1>1, <1>2 DEF Left, Own, AckSteps

\* The same before and after a step that leaves the copy where it is redelivered.
LEMMA LeftMoves ==
    ASSUME Typed, Typed', NEW c \in Copies, NEW place, NEW step, NEW attempt, NEW parking,
           Updates(c, place, step, attempt, parking)
    PROVE  \E l \in Nat :
              /\ MaxRetries \in Nat /\ copies[c].attempt \in 0 .. MaxRetries
              /\ attempt \in 0 .. MaxRetries
              /\ copies[c].step = "none" => Left(copies[c]) = l + MaxRetries + 1
              /\ copies[c].step = "consuming" =>
                    Left(copies[c]) = l + (MaxRetries - copies[c].attempt)
              /\ copies[c].step = "backoff" =>
                    Left(copies[c]) = l + (MaxRetries + 1 - copies[c].attempt)
              /\ step = "consuming" => Left(copies'[c]) = l + (MaxRetries - attempt)
              /\ step = "backoff" => Left(copies'[c]) = l + (MaxRetries + 1 - attempt)
              /\ step = "failed" => Left(copies'[c]) = l
<1>1. copies[c] \in Records
  BY RecordOf
<1>2. /\ copies'[c] \in Records /\ copies'[c].redelivery = copies[c].redelivery
      /\ copies'[c].step = step /\ copies'[c].attempt = attempt
  BY ElementOfSeq DEF Typed, Updates, Moved, Copies
<1>. DEFINE l == Later(copies[c].redelivery)
<1>3. l \in Nat
  BY <1>1, LeftOf
<1>. WITNESS l \in Nat
<1>. QED  BY <1>1, <1>2, LeftOf

\* Every step keeps the budget.
LEMMA NextBudgeted == Typed /\ Typed' /\ Counted /\ Budgeted /\ [Next]_vars => Budgeted'
<1>. SUFFICES ASSUME Typed, Typed', Counted, Budgeted, [Next]_vars PROVE Budgeted'
  OBVIOUS
<1>0. \A c \in Copies : At(c, "none") \/ copies[c].place = "unacked"
  BY TypedIs DEF At, Placed
<1>r. \A c \in Copies : copies[c] \in Records
  BY RecordOf
<1>1. ASSUME NEW c \in Copies, DelayPasses(c) PROVE Budgeted'
  <2>1. Updates(c, "queued", copies[c].step, copies[c].attempt, copies[c].parking)
    BY <1>1, DelayPassesUpdates
  <2>2. Left(copies'[c]) <= Left(copies[c])
    BY <1>r, <2>1, LeftIs, LaterFalls DEF Updates, Moved, Left, Own
  <2>3. copies[c].place # "gone" /\ UNCHANGED <<calls, crashes>>
    BY <1>1 DEF DelayPasses
  <2>. QED  BY <2>1, <2>2, <2>3, UpdateKeepsLeft, QuietBudgeted
<1>2. ASSUME NEW c \in Copies, Deliver(c) PROVE Budgeted'
  <2>1. Updates(c, "unacked", "consuming", copies[c].attempt, copies[c].parking)
    BY <1>2, DeliverUpdates
  <2>2. copies[c].place = "queued" /\ copies[c].step = "none" /\ CallConsume(c) /\ UNCHANGED crashes
    BY <1>0, <1>2 DEF Deliver, At
  <2>3. Left(copies'[c]) < Left(copies[c])
    BY <2>1, <2>2, LeftMoves
  <2>. QED  BY <2>1, <2>2, <2>3, CallBudgeted DEF Updates, Moved
<1>3. ASSUME NEW c \in Copies, ConsumeReturns(c) PROVE Budgeted'
  <2>1. Updates(c, copies[c].place, "returned", copies[c].attempt, copies[c].parking)
    BY <1>3, GotoUpdates DEF ConsumeReturns
  <2>2. Left(copies'[c]) = 0 /\ Left(copies[c]) \in Nat
    BY <1>r, <2>1, LeftIs, LaterFalls DEF Updates, Moved, Left, AckSteps
  <2>3. UNCHANGED <<calls, crashes>>
    BY <1>3 DEF ConsumeReturns
  <2>. QED  BY <2>1, <2>2, <2>3, UpdateKeepsLeft, QuietBudgeted
<1>4. ASSUME NEW c \in Copies, ConsumeThrows(c) PROVE Budgeted'
  <2>1. copies[c].step = "consuming" /\ UNCHANGED <<calls, crashes>>
    BY <1>4 DEF ConsumeThrows, At
  <2>2. CASE copies[c].attempt < MaxRetries
    <3>1. Updates(c, copies[c].place, "backoff", copies[c].attempt + 1, copies[c].parking)
      BY <1>4, <2>2, ThrowsUpdates
    <3>2. Left(copies'[c]) <= Left(copies[c])
      BY <2>1, <2>2, <3>1, LeftMoves
    <3>. QED  BY <2>1, <3>1, <3>2, UpdateKeepsLeft, QuietBudgeted
  <2>3. CASE ~(copies[c].attempt < MaxRetries)
    <3>1. Updates(c, copies[c].place, "failed", copies[c].attempt, copies[c].parking)
      BY <1>4, <2>3, ThrowsUpdates
    <3>2. Left(copies'[c]) <= Left(copies[c])
      BY <2>1, <3>1, LeftMoves
    <3>. QED  BY <2>1, <3>1, <3>2, UpdateKeepsLeft, QuietBudgeted
  <2>. QED  BY <2>2, <2>3
<1>5. ASSUME NEW c \in Copies, ConsumeAgain(c) PROVE Budgeted'
  <2>1. Updates(c, copies[c].place, "consuming", copies[c].attempt, copies[c].parking)
    BY <1>5, GotoUpdates DEF ConsumeAgain
  <2>2. /\ copies[c].place = "unacked" /\ copies[c].step = "backoff"
        /\ CallConsume(c) /\ UNCHANGED crashes
    BY <1>0, <1>5 DEF ConsumeAgain, At
  <2>3. Left(copies'[c]) < Left(copies[c])
    BY <2>1, <2>2, LeftMoves
  <2>. QED  BY <2>1, <2>2, <2>3, CallBudgeted DEF Updates, Moved
<1>6. ASSUME NEW c \in Copies, Redeliver(c) PROVE Budgeted'
  BY <1>6, RedeliverBudgeted
<1>7. ASSUME NEW c \in Copies, Park(c) PROVE Budgeted'
  <2>1. Updates(c, copies[c].place, "parking", copies[c].attempt, TRUE)
    BY <1>7, ParkUpdates
  <2>2. Left(copies'[c]) = 0 /\ Left(copies[c]) \in Nat
    BY <1>r, <2>1, LeftIs, LaterFalls DEF Updates, Moved, Left, AckSteps
  <2>3. UNCHANGED <<calls, crashes>>
    BY <1>7 DEF Park
  <2>4. Left(copies'[c]) <= Left(copies[c])
    BY <2>2
  <2>. QED  BY <2>1, <2>3, <2>4, UpdateKeepsLeft, QuietBudgeted, Zenon
<1>8. ASSUME NEW c \in Copies, SendToErrorQueue(c) PROVE Budgeted'
  <2>1. Updates(c, copies[c].place, copies[c].step, copies[c].attempt, FALSE)
    BY <1>8, SendUpdates
  <2>2. Left(copies'[c]) <= Left(copies[c])
    BY <1>r, <2>1, LeftIs, LaterFalls DEF Updates, Moved, Left, Own
  <2>3. UNCHANGED <<calls, crashes>>
    BY <1>8 DEF SendToErrorQueue
  <2>. QED  BY <2>1, <2>2, <2>3, UpdateKeepsLeft, QuietBudgeted
<1>9. ASSUME NEW c \in Copies, Ack(c) PROVE Budgeted'
  <2>1. Updates(c, "gone", "none", copies[c].attempt, copies[c].parking)
    BY <1>9, AckUpdates
  <2>2. UNCHANGED <<calls, crashes>>
    BY <1>9 DEF Ack
  <2>. QED  BY <2>1, <2>2, UpdateKeepsLeft, QuietBudgeted
<1>10. CASE Crash
  <2>. SUFFICES ASSUME NEW m \in Messages
                PROVE  2 * (calls'[m] + Cardinality(Ahead(m)'))
                          <= Schedule * (2 + crashes' * (crashes' + 1))
    BY DEF Budgeted
  <2>1. Copies' = Copies /\ \A i \in Copies : Restored(i)
    BY <1>10, CrashUpdates
  <2>2. Live(m)' = Live(m) /\ Live(m) \subseteq Copies
    BY <2>1 DEF Restored, Live, CopiesOf
  <2>3. Ahead(m)' \subseteq Ahead(m) \cup (Live(m) \X (1 .. Schedule))
    BY <2>2 DEF Ahead
  <2>4. IsFiniteSet(Ahead(m)')
    <3>1. IsFiniteSet(Live(m)) /\ IsFiniteSet(1 .. Schedule)
      BY <2>2, LiveFinite, FS_Interval, LaterFalls
    <3>2. IsFiniteSet(Live(m) \X (1 .. Schedule))
      BY <3>1, FS_Product
    <3>3. Ahead(m)' \subseteq Live(m) \X (1 .. Schedule)
      BY <2>2 DEF Ahead
    <3>. QED  BY <3>2, <3>3, FS_Subset
  <2>5. IsFiniteSet(Ahead(m)) /\ Cardinality(Ahead(m)) <= Cardinality(Ahead(m))
    BY AheadFinite
  <2>. QED  BY <1>10, <2>3, <2>4, <2>5, CrashBudgeted DEF Crash
<1>11. ASSUME NEW c \in Copies, CrashInRedeliver(c) PROVE Budgeted'
  BY <1>11, CrashInRedeliverBudgeted
<1>12. CASE UNCHANGED vars
  <2>1. UNCHANGED <<copies, calls, crashes>> /\ Copies' = Copies
    BY <1>12 DEF vars, Copies
  <2>2. \A i \in Copies : Left(copies[i]) \in Nat
    BY <1>r, LeftIs, LaterFalls
  <2>3. \A i \in Copies : copies'[i].msg = copies[i].msg /\ Left(copies'[i]) <= Left(copies[i])
                            /\ copies'[i].place = copies[i].place
    BY <2>1, <2>2
  <2>. QED  BY <2>1, <2>3, QuietBudgeted
<1>. QED
  BY <1>1, <1>2, <1>3, <1>4, <1>5, <1>6, <1>7, <1>8, <1>9, <1>10, <1>11, <1>12
     DEF Next, Progress

\* Retries and redeliveries multiply but end, and crashes multiply them at most
\* as often as WorkBounded says; no message has more pending copies than that.
THEOREM WorkCorrect == Spec => []WorkBounded
<1>1. Typed /\ Counted /\ Budgeted => WorkBounded
  <2>. SUFFICES ASSUME Typed, Counted, Budgeted, NEW m \in Messages
                PROVE  /\ 2 * calls[m] <= Schedule * (2 + crashes * (crashes + 1))
                       /\ Cardinality(Pending(m)) <= 1 + crashes
    BY DEF WorkBounded
  <2>1. calls[m] \in Nat /\ crashes \in Nat
    BY Limits DEF Typed, TypeOK
  <2>2. Cardinality(Ahead(m)) \in Nat
    BY AheadFinite
  <2>. DEFINE b == Schedule * (2 + crashes * (crashes + 1))
  <2>3. 2 * (calls[m] + Cardinality(Ahead(m))) <= b
    BY DEF Budgeted
  <2>4. b \in Nat
    BY <2>1, BoundRises, LaterFalls
  <2>. HIDE DEF b
  <2>5. 2 * calls[m] <= b
    BY <2>1, <2>2, <2>3, <2>4
  <2>6. Pending(m) \subseteq Live(m) /\ Live(m) \subseteq Copies
    BY DEF Pending, Live, CopiesOf
  <2>7. /\ IsFiniteSet(Live(m)) /\ Cardinality(Live(m)) \in Nat
        /\ Cardinality(Live(m)) <= 1 + crashes
    BY <2>6, LiveFinite DEF Counted
  <2>8. Cardinality(Pending(m)) <= Cardinality(Live(m)) /\ Cardinality(Pending(m)) \in Nat
    BY <2>6, <2>7, FS_Subset, FS_CardinalityType
  <2>. QED  BY <2>1, <2>5, <2>7, <2>8 DEF b
<1>2. Spec => []Budgeted
  BY InitBudgeted, TypedInvariant, CountedInvariant, NextBudgeted, PTL DEF Spec
<1>. QED  BY <1>1, <1>2, TypedInvariant, CountedInvariant, PTL

-----------------------------------------------------------------------------
\* The course of a message while the process lives: one copy is pending until the
\* message is handled, or on its way to the error queue, or there.

Parking(m) == {c \in CopiesOf(m) : copies[c].parking}

Stages(pending, parking, handled, inErrorQueue) ==
    /\ \A c, d \in pending : c = d
    /\ \A c, d \in parking : c = d
    /\ pending # {} => parking = {} /\ ~handled /\ inErrorQueue = 0
    /\ parking # {} => ~handled /\ inErrorQueue = 0
    /\ inErrorQueue <= 1 /\ (handled => inErrorQueue = 0)
    /\ pending = {} => handled \/ inErrorQueue > 0 \/ parking # {}

Course ==
    crashes = 0 =>
        \A m \in Messages : Stages(Pending(m), Parking(m), m \in succeeded, parked[m])

\* At first every message is pending.
LEMMA InitCourse == Init => Course
<1>. SUFFICES ASSUME Init, NEW m \in Messages
              PROVE  Stages(Pending(m), Parking(m), m \in succeeded, parked[m])
  BY DEF Course
<1>1. ASSUME NEW c \in Copies
      PROVE  /\ copies[c].place = "queued" /\ copies[c].step = "none"
             /\ copies[c].parking = FALSE
  <2>1. copies[c] = Copy(copies[c].msg, 0, "queued")
    BY InitCopies
  <2>. DEFINE x == copies[c].msg
  <2>. HIDE DEF x
  <2>2. /\ Copy(x, 0, "queued").place = "queued" /\ Copy(x, 0, "queued").step = "none"
        /\ Copy(x, 0, "queued").parking = FALSE
    BY DEF Copy
  <2>. QED  BY <2>1, <2>2 DEF x
<1>2. Parking(m) = {}
  BY <1>1 DEF Parking, CopiesOf
<1>3. Pending(m) # {} /\ \A c, d \in Pending(m) : c = d
  <2>1. PICK c \in Copies : copies[c].msg = m
    BY InitCopies
  <2>2. c \in Pending(m)
    BY <1>1, <2>1 DEF Pending, CopiesOf, AckSteps
  <2>3. \A d, e \in Pending(m) : d = e
    BY InitCopies DEF Pending, CopiesOf
  <2>. QED  BY <2>2, <2>3
<1>4. m \notin succeeded /\ parked[m] = 0
  BY DEF Init
<1>. QED  BY <1>2, <1>3, <1>4 DEF Stages

\* What the change of one copy does to the sets of another message ...
LEMMA UpdatesOtherStages ==
    ASSUME NEW c \in Copies, NEW place, NEW step, NEW attempt, NEW parking,
           Updates(c, place, step, attempt, parking), NEW m, m # copies[c].msg
    PROVE  Pending(m)' = Pending(m) /\ Parking(m)' = Parking(m)
  BY DEF Updates, Moved, Others, Pending, Parking, CopiesOf

\* ... and to those of its own.
LEMMA UpdatesStages ==
    ASSUME Typed, NEW c \in Copies, NEW place, NEW step, NEW attempt, NEW parking \in BOOLEAN,
           Updates(c, place, step, attempt, parking), NEW m, m = copies[c].msg
    PROVE  /\ c \in Pending(m) <=> copies[c].place # "gone" /\ copies[c].step \notin AckSteps
           /\ c \in Parking(m) <=> copies[c].parking
           /\ place # "gone" /\ step \notin AckSteps => Pending(m)' = Pending(m) \cup {c}
           /\ place = "gone" \/ step \in AckSteps => Pending(m)' = Pending(m) \ {c}
           /\ parking => Parking(m)' = Parking(m) \cup {c}
           /\ ~parking => Parking(m)' = Parking(m) \ {c}
<1>1. /\ Copies' = Copies /\ copies'[c].msg = copies[c].msg
      /\ copies'[c].place = place /\ copies'[c].step = step /\ copies'[c].parking = parking
      /\ \A i \in Copies \ {c} : copies'[i] = copies[i]
  BY DEF Updates, Moved, Others
<1>2. place # "gone" /\ step \notin AckSteps => Pending(m)' = Pending(m) \cup {c}
  BY <1>1 DEF Pending, CopiesOf
<1>3. place = "gone" \/ step \in AckSteps => Pending(m)' = Pending(m) \ {c}
  BY <1>1 DEF Pending, CopiesOf
<1>4. parking => Parking(m)' = Parking(m) \cup {c}
  BY <1>1 DEF Parking, CopiesOf
<1>5. ~parking => Parking(m)' = Parking(m) \ {c}
  BY <1>1 DEF Parking, CopiesOf
<1>. QED  BY <1>2, <1>3, <1>4, <1>5 DEF CopiesOf, Pending, Parking

\* Every step keeps the course of every message.
LEMMA NextCourse == Typed /\ Course /\ [Next]_vars => Course'
<1>. SUFFICES ASSUME Typed, Course, [Next]_vars, crashes' = 0, NEW m \in Messages
              PROVE  Stages(Pending(m), Parking(m), m \in succeeded, parked[m])'
  BY DEF Course
<1>. DEFINE Goal == Stages(Pending(m)', Parking(m)', m \in succeeded', parked'[m])
<1>. SUFFICES Goal
  OBVIOUS
<1>. HIDE DEF Goal
<1>0. ASSUME crashes = 0
      PROVE  Stages(Pending(m), Parking(m), m \in succeeded, parked[m])
  BY <1>0 DEF Course
<1>p. \A c \in Copies :
         /\ At(c, "consuming") \/ At(c, "backoff") \/ At(c, "failed") => copies[c].place = "unacked"
         /\ copies[c].place \in {"delayed", "queued"} => copies[c].step = "none"
         /\ copies[c].parking \in BOOLEAN
  BY TypedIs, RecordOf DEF At, Placed, Records
<1>a. /\ "returned" \in AckSteps /\ "parking" \in AckSteps
      /\ "consuming" \notin AckSteps /\ "failed" \notin AckSteps /\ "unacked" # "gone"
  BY DEF AckSteps
<1>q. ASSUME crashes = 0, Pending(m)' = Pending(m), Parking(m)' = Parking(m),
             UNCHANGED <<succeeded, parked>>
      PROVE  Goal
  BY <1>0, <1>q DEF Goal
\* A step of a copy that is as pending afterwards as it was before.
<1>u. ASSUME NEW c \in Copies, NEW place, NEW step, NEW attempt,
             Updates(c, place, step, attempt, copies[c].parking),
             (place # "gone" /\ step \notin AckSteps)
                <=> (copies[c].place # "gone" /\ copies[c].step \notin AckSteps),
             UNCHANGED <<succeeded, parked, crashes>>
      PROVE  Goal
  <2>0. copies[c].parking \in BOOLEAN
    BY <1>p
  <2>1. Pending(m)' = Pending(m) /\ Parking(m)' = Parking(m)
    <3>1. CASE m # copies[c].msg
      BY <1>u, <3>1, UpdatesOtherStages
    <3>2. CASE m = copies[c].msg
      <4>1. Pending(m)' = Pending(m)
        BY <1>u, <2>0, <3>2, UpdatesStages
      <4>2. Parking(m)' = Parking(m)
        BY <1>u, <2>0, <3>2, UpdatesStages
      <4>. QED  BY <4>1, <4>2
    <3>. QED  BY <3>1, <3>2
  <2>. QED  BY <1>q, <1>u, <2>1
<1>1. ASSUME NEW c \in Copies, DelayPasses(c) PROVE Goal
  BY <1>1, <1>p, <1>u, DelayPassesUpdates DEF DelayPasses, AckSteps
<1>2. ASSUME NEW c \in Copies, Deliver(c) PROVE Goal
  BY <1>2, <1>p, <1>u, DeliverUpdates DEF Deliver, AckSteps
<1>3. ASSUME NEW c \in Copies, ConsumeReturns(c) PROVE Goal
  <2>1. Updates(c, copies[c].place, "returned", copies[c].attempt, copies[c].parking)
    BY <1>3, GotoUpdates DEF ConsumeReturns
  <2>2. /\ copies[c].step = "consuming" /\ copies[c].place = "unacked" /\ crashes = 0
        /\ succeeded' = succeeded \cup {copies[c].msg} /\ UNCHANGED parked
    BY <1>3, <1>p DEF ConsumeReturns, At
  <2>3. CASE m # copies[c].msg
    BY <1>0, <2>1, <2>2, <2>3, UpdatesOtherStages DEF Goal
  <2>4. CASE m = copies[c].msg
    <3>1. /\ c \in Pending(m) /\ Pending(m)' = Pending(m) \ {c}
          /\ copies[c].parking <=> c \in Parking(m)
          /\ ~copies[c].parking => Parking(m)' = Parking(m) \ {c}
      BY <1>a, <1>p, <2>1, <2>2, <2>4, UpdatesStages
    <3>2. Parking(m) = {} /\ parked[m] = 0 /\ \A d \in Pending(m) : d = c
      BY <1>0, <2>2, <3>1 DEF Stages
    <3>3. Pending(m)' = {} /\ Parking(m)' = {} /\ m \in succeeded' /\ parked'[m] = 0
      BY <2>2, <2>4, <3>1, <3>2
    <3>. QED  BY <3>3 DEF Goal, Stages
  <2>. QED  BY <2>3, <2>4
<1>4. ASSUME NEW c \in Copies, ConsumeThrows(c) PROVE Goal
  <2>1. CASE copies[c].attempt < MaxRetries
    BY <1>4, <1>p, <1>u, <2>1, ThrowsUpdates DEF ConsumeThrows, At, AckSteps
  <2>2. CASE ~(copies[c].attempt < MaxRetries)
    BY <1>4, <1>p, <1>u, <2>2, ThrowsUpdates DEF ConsumeThrows, At, AckSteps
  <2>. QED  BY <2>1, <2>2
<1>5. ASSUME NEW c \in Copies, ConsumeAgain(c) PROVE Goal
  BY <1>5, <1>p, <1>u, GotoUpdates DEF ConsumeAgain, At, AckSteps
<1>6. ASSUME NEW c \in Copies, Redeliver(c) PROVE Goal
  <2>. DEFINE n == Len(copies) + 1
  <2>1. /\ Copies' = Copies \cup {n} /\ n \notin Copies
        /\ copies'[c].msg = copies[c].msg /\ copies'[c].place = "gone"
        /\ copies'[c].parking = copies[c].parking
        /\ copies'[n].msg = copies[c].msg /\ copies'[n].place = "delayed"
        /\ copies'[n].step = "none" /\ copies'[n].parking = FALSE
        /\ \A i \in Copies \ {c} : copies'[i] = copies[i]
    BY <1>6, RedeliverUpdates DEF Moved, Others, Appended
  <2>2. /\ copies[c].step = "failed" /\ copies[c].place = "unacked" /\ crashes = 0
        /\ UNCHANGED <<succeeded, parked>>
    BY <1>6, <1>p DEF Redeliver, At
  <2>. HIDE DEF n
  <2>3. Parking(m)' = Parking(m)
    BY <2>1 DEF Parking, CopiesOf
  <2>4. CASE m # copies[c].msg
    <3>1. Pending(m)' = Pending(m)
      BY <2>1, <2>4 DEF Pending, CopiesOf
    <3>. QED  BY <1>q, <2>2, <2>3, <3>1
  <2>5. CASE m = copies[c].msg
    <3>1. c \in Pending(m) /\ Pending(m)' = (Pending(m) \ {c}) \cup {n}
      BY <2>1, <2>2, <2>5 DEF Pending, CopiesOf, AckSteps
    <3>2. /\ Parking(m) = {} /\ m \notin succeeded /\ parked[m] = 0
          /\ \A d \in Pending(m) : d = c
      BY <1>0, <2>2, <3>1 DEF Stages
    <3>3. Pending(m)' = {n} /\ Parking(m)' = {} /\ m \notin succeeded' /\ parked'[m] = 0
      BY <2>2, <2>3, <3>1, <3>2
    <3>. QED  BY <3>3 DEF Goal, Stages
  <2>. QED  BY <2>4, <2>5
<1>7. ASSUME NEW c \in Copies, Park(c) PROVE Goal
  <2>1. Updates(c, copies[c].place, "parking", copies[c].attempt, TRUE)
    BY <1>7, ParkUpdates
  <2>2. /\ copies[c].step = "failed" /\ copies[c].place = "unacked" /\ crashes = 0
        /\ UNCHANGED <<succeeded, parked>>
    BY <1>7, <1>p DEF Park, At
  <2>3. CASE m # copies[c].msg
    BY <1>q, <2>1, <2>2, <2>3, UpdatesOtherStages
  <2>4. CASE m = copies[c].msg
    <3>1. c \in Pending(m)
      BY <2>2, <2>4 DEF Pending, CopiesOf, AckSteps
    <3>2. Pending(m)' = Pending(m) \ {c}
      BY <1>a, <2>1, <2>4 DEF Updates, Moved, Others, Pending, CopiesOf
    <3>3. Parking(m)' = Parking(m) \cup {c}
      <4>1. TRUE \in BOOLEAN
        OBVIOUS
      <4>. QED  BY <2>1, <2>4, <4>1, UpdatesStages
    <3>4. /\ Parking(m) = {} /\ m \notin succeeded /\ parked[m] = 0
          /\ \A d \in Pending(m) : d = c
      BY <1>0, <2>2, <3>1 DEF Stages
    <3>5. Pending(m)' = {} /\ Parking(m)' = {c} /\ m \notin succeeded' /\ parked'[m] = 0
      BY <2>2, <3>2, <3>3, <3>4
    <3>. QED  BY <3>5 DEF Goal, Stages
  <2>. QED  BY <2>3, <2>4
<1>8. ASSUME NEW c \in Copies, SendToErrorQueue(c) PROVE Goal
  <2>1. Updates(c, copies[c].place, copies[c].step, copies[c].attempt, FALSE)
    BY <1>8, SendUpdates
  <2>2. /\ copies[c].parking /\ crashes = 0 /\ UNCHANGED succeeded
        /\ parked' = [parked EXCEPT ![copies[c].msg] = @ + 1]
        /\ parked \in [Messages -> Nat]
    BY <1>8 DEF SendToErrorQueue, Typed, TypeOK
  <2>3. CASE m # copies[c].msg
    <3>1. parked'[m] = parked[m] /\ Pending(m)' = Pending(m) /\ Parking(m)' = Parking(m)
      BY <2>1, <2>2, <2>3, UpdatesOtherStages
    <3>. QED  BY <1>0, <2>2, <3>1 DEF Goal
  <2>4. CASE m = copies[c].msg
    <3>1. c \in Parking(m) /\ Parking(m)' = Parking(m) \ {c}
      BY <2>1, <2>2, <2>4, UpdatesStages
    <3>2. /\ Pending(m) = {} /\ m \notin succeeded /\ parked[m] = 0
          /\ \A d \in Parking(m) : d = c
      BY <1>0, <2>2, <3>1 DEF Stages
    <3>3. Pending(m)' = {}
      <4>1. c \in Pending(m) <=> copies[c].place # "gone" /\ copies[c].step \notin AckSteps
        BY <2>4 DEF Pending, CopiesOf
      <4>2. copies[c].place = "gone" \/ copies[c].step \in AckSteps
        BY <3>2, <4>1
      <4>3. Pending(m)' = Pending(m) \ {c}
        BY <2>1, <2>4, <4>2, UpdatesStages
      <4>. QED  BY <3>2, <4>3
    <3>4. Parking(m)' = {} /\ m \notin succeeded' /\ parked'[m] = 1
      BY <2>2, <2>4, <3>1, <3>2
    <3>. QED  BY <3>3, <3>4 DEF Goal, Stages
  <2>. QED  BY <2>3, <2>4
<1>9. ASSUME NEW c \in Copies, Ack(c) PROVE Goal
  BY <1>9, <1>u, AckUpdates DEF Ack, At
<1>10. CASE Crash
  BY <1>10, Limits DEF Crash, Break, Typed, TypeOK
<1>11. ASSUME NEW c \in Copies, CrashInRedeliver(c) PROVE Goal
  BY <1>11, Limits DEF CrashInRedeliver, Break, Typed, TypeOK
<1>12. CASE UNCHANGED vars
  BY <1>12, <1>q DEF vars, Pending, Parking, CopiesOf, Copies
<1>. QED
  BY <1>1, <1>2, <1>3, <1>4, <1>5, <1>6, <1>7, <1>8, <1>9, <1>10, <1>11, <1>12
     DEF Next, Progress

\* Course is an invariant.
LEMMA CourseInvariant == Spec => []Course
  BY InitCourse, TypedInvariant, NextCourse, PTL DEF Spec

\* While the process lives nothing is lost: the acknowledgement of a failed message
\* never goes ahead of the copy that takes its place.
THEOREM NothingLostCorrect == Spec => []NothingLost
<1>1. Course => NothingLost
  <2>. SUFFICES ASSUME Course, crashes = 0, NEW m \in Messages, Pending(m) = {}
                PROVE  m \in succeeded \/ parked[m] > 0 \/ Parking(m) # {}
    BY DEF NothingLost, Parking
  <2>. QED  BY DEF Course, Stages
<1>. QED  BY <1>1, CourseInvariant, PTL

\* ... and no message is both handled and parked, or parked twice.
THEOREM OneOutcomeCorrect == Spec => []OneOutcome
<1>1. Course => OneOutcome
  BY DEF Course, Stages, OneOutcome
<1>. QED  BY <1>1, CourseInvariant, PTL
=============================================================================
