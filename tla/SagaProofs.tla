----------------------------- MODULE SagaProofs ------------------------------
(***************************************************************************)
(* Proofs about Saga for any workflow, consumers, retries and failures.    *)
(***************************************************************************)
EXTENDS Saga, FiniteSetTheorems, SequenceTheorems, TLAPS

-----------------------------------------------------------------------------
\* Type correctness.  The phases are a parameter P: a consumer outside Saga that
\* takes part in a conversation may have phases of its own.

Handlers(P) ==
    [kind : Events \cup Commands, parent : Nat, header : Nat, phase : P,
     tries : 0 .. MaxTries, version : Nat, awaits : Nat]

\* Which handlers can be in a phase.
Fits(h) ==
    /\ h.phase \in {"ready", "saving"} => h.kind \in Events
    /\ h.phase = "saved" => h.kind \in DOMAIN CommandOf
    /\ h.phase = "waiting" /\ h.kind \in Events => h.kind \in DOMAIN CommandOf
    /\ h.phase = "answered" => h.kind \in FinalEvents
    /\ h.phase = "caught" => h.kind \in DOMAIN Fallback

Rows == [version : Nat, archived : BOOLEAN, content : States]

MessagesTyped(P) ==
    /\ msgs \in Seq(Handlers(P))
    /\ \A m \in Ids :
           /\ Fits(msgs[m])
           /\ msgs[m].parent \in 0 .. m - 1
           /\ msgs[m].awaits \in {0} \cup m + 1 .. Len(msgs)

Typed(P) ==
    /\ MessagesTyped(P)
    /\ row \in Rows
    /\ crashes \in 0 .. MaxCrashes
    /\ faults \in 0 .. MaxFaults

\* What a step leaves of a message: its kind, where it came from, its headers.
Same(m) ==
    /\ msgs'[m].kind = msgs[m].kind
    /\ msgs'[m].parent = msgs[m].parent
    /\ msgs'[m].header = msgs[m].header

\* A step that changes the handler of at most one message.
Touches(m) ==
    /\ Len(msgs') = Len(msgs)
    /\ Same(m)
    /\ \A i \in Ids : i # m => msgs'[i] = msgs[i]

\* A step of a handler that sends a message and waits for the answer.
Sends1(m, kind, header) ==
    /\ Len(msgs') = Len(msgs) + 1
    /\ Same(m)
    /\ msgs'[m].phase = "waiting" /\ msgs'[m].awaits = Len(msgs')
    /\ msgs'[m].version = msgs[m].version /\ msgs'[m].tries = msgs[m].tries
    /\ \A i \in Ids : i # m => msgs'[i] = msgs[i]
    /\ msgs'[Len(msgs')] = Message(kind, m, header)

\* A handler that is replaced.
LEMMA Replaced ==
    ASSUME NEW P, msgs \in Seq(Handlers(P)), NEW m \in Ids, NEW h \in Handlers(P),
           msgs' = [msgs EXCEPT ![m] = h],
           h.kind = msgs[m].kind, h.parent = msgs[m].parent, h.header = msgs[m].header
    PROVE  /\ msgs' \in Seq(Handlers(P))
           /\ Touches(m)
           /\ msgs'[m] = h
<1>. DEFINE H == Handlers(P)
<1>0. msgs \in Seq(H) /\ h \in H /\ m \in 1 .. Len(msgs)
  BY DEF Ids
<1>. HIDE DEF H
<1>1. /\ msgs' \in Seq(H)
      /\ Len(msgs') = Len(msgs)
      /\ \A j \in 1 .. Len(msgs) : msgs'[j] = IF j = m THEN h ELSE msgs[j]
  BY <1>0, ExceptSeq
<1>. QED  BY <1>0, <1>1 DEF H, Touches, Same, Ids

\* A handler that goes on to another phase.
LEMMA WentTo ==
    ASSUME NEW P, MessagesTyped(P), NEW m \in Ids, NEW x \in P, msgs' = Goto(m, x)
    PROVE  /\ msgs' \in Seq(Handlers(P))
           /\ Touches(m)
           /\ msgs'[m] = [msgs[m] EXCEPT !.phase = x]
<1>. DEFINE h == [msgs[m] EXCEPT !.phase = x]
<1>1. msgs[m] \in Handlers(P) /\ msgs \in Seq(Handlers(P))
  BY ElementOfSeq DEF MessagesTyped, Ids
<1>2. h \in Handlers(P) /\ h.kind = msgs[m].kind /\ h.parent = msgs[m].parent
      /\ h.header = msgs[m].header
  BY <1>1 DEF Handlers
<1>3. msgs' = [msgs EXCEPT ![m] = h]
  BY DEF Goto
<1>. HIDE DEF h
<1>4. /\ msgs' \in Seq(Handlers(P))
      /\ Touches(m)
      /\ msgs'[m] = h
  BY <1>1, <1>2, <1>3, Replaced
<1>. QED  BY <1>4 DEF h

\* A handler whose attempt failed.
LEMMA HasFailed ==
    ASSUME NEW P, Phases \subseteq P, MessagesTyped(P), NEW m \in Ids, msgs' = Failed(m)
    PROVE  /\ msgs' \in Seq(Handlers(P))
           /\ Touches(m)
           /\ msgs'[m].phase \in {"ready", "caught", "failed"}
           /\ msgs'[m].version = msgs[m].version
           /\ msgs'[m].awaits = msgs[m].awaits
           /\ Fits(msgs'[m])
           /\ msgs'[m].phase = "caught" => msgs[m].phase # "caught"
<1>1. msgs[m] \in Handlers(P) /\ msgs \in Seq(Handlers(P))
  BY ElementOfSeq DEF MessagesTyped, Ids
<1>2. CASE IsEvent(m) /\ msgs[m].tries < MaxTries
  <2>. DEFINE h == [msgs[m] EXCEPT !.phase = "ready", !.tries = @ + 1]
  <2>a. msgs[m].tries \in 0 .. MaxTries /\ MaxTries \in Nat
    BY <1>1, SagaAssumption DEF Handlers
  <2>b. msgs[m].tries + 1 \in 0 .. MaxTries
    BY <1>2, <2>a
  <2>c. "ready" \in P
    BY DEF Phases
  <2>1. h \in Handlers(P) /\ h.kind = msgs[m].kind /\ h.parent = msgs[m].parent
        /\ h.header = msgs[m].header
    BY <1>1, <2>b, <2>c DEF Handlers
  <2>2. msgs' = [msgs EXCEPT ![m] = h]
    BY <1>2 DEF Failed
  <2>3. h.phase = "ready" /\ h.version = msgs[m].version /\ h.awaits = msgs[m].awaits
    BY <1>1 DEF Handlers
  <2>4. h.kind \in Events
    BY <1>2, <2>1 DEF IsEvent
  <2>. HIDE DEF h
  <2>5. /\ msgs' \in Seq(Handlers(P))
        /\ Touches(m)
        /\ msgs'[m] = h
    BY <1>1, <2>1, <2>2, Replaced
  <2>. QED  BY <2>3, <2>4, <2>5 DEF Fits
<1>3. CASE ~(IsEvent(m) /\ msgs[m].tries < MaxTries)
  <2>. DEFINE x == IF Catches(m) THEN "caught" ELSE "failed"
  <2>1. msgs' = Goto(m, x)
    BY <1>3 DEF Failed
  <2>2. x \in P
    BY DEF Phases
  <2>3. /\ msgs' \in Seq(Handlers(P))
        /\ Touches(m)
        /\ msgs'[m] = [msgs[m] EXCEPT !.phase = x]
    BY <2>1, <2>2, WentTo
  <2>4. x = "caught" => msgs[m].kind \in DOMAIN Fallback /\ msgs[m].phase # "caught"
    BY DEF Catches
  <2>. QED  BY <1>1, <2>3, <2>4 DEF Handlers, Fits
<1>. QED  BY <1>2, <1>3

\* A handler that sends a message.
LEMMA HasSent ==
    ASSUME NEW P, Phases \subseteq P, MessagesTyped(P), NEW m \in Ids,
           NEW kind \in Events \cup Commands, NEW header \in Nat,
           msgs' = Sent(m, kind, header)
    PROVE  /\ msgs' \in Seq(Handlers(P))
           /\ Sends1(m, kind, header)
<1>. DEFINE h == [msgs[m] EXCEPT !.phase = "waiting", !.awaits = Len(msgs) + 1]
            s == [msgs EXCEPT ![m] = h]
            H == Handlers(P)
            n == Message(kind, m, header)
<1>1. msgs[m] \in H /\ msgs \in Seq(H) /\ m \in Nat /\ Len(msgs) \in Nat
  BY ElementOfSeq, LenProperties DEF MessagesTyped, Ids
<1>a. "waiting" \in P /\ Len(msgs) + 1 \in Nat
  BY <1>1 DEF Phases
<1>b. h \in H
  BY <1>1, <1>a DEF Handlers
<1>2. h \in H /\ h.kind = msgs[m].kind /\ h.parent = msgs[m].parent
      /\ h.header = msgs[m].header /\ h.phase = "waiting" /\ h.awaits = Len(msgs) + 1
      /\ h.version = msgs[m].version /\ h.tries = msgs[m].tries
  BY <1>1, <1>b DEF Handlers
<1>3. n \in H
  BY <1>1, SagaAssumption DEF Handlers, Phases, Message
<1>4. msgs' = Append(s, n)
  BY DEF Sent
<1>5. m \in 1 .. Len(msgs)
  BY DEF Ids
<1>. HIDE DEF h, H, n
<1>6. /\ s \in Seq(H)
      /\ Len(s) = Len(msgs)
      /\ \A j \in 1 .. Len(msgs) : s[j] = IF j = m THEN h ELSE msgs[j]
  BY <1>1, <1>2, <1>5, ExceptSeq
<1>. HIDE DEF s
<1>7. /\ msgs' \in Seq(H)
      /\ Len(msgs') = Len(s) + 1
      /\ \A j \in 1 .. Len(s) : msgs'[j] = s[j]
      /\ msgs'[Len(s) + 1] = n
  BY <1>3, <1>4, <1>6, AppendProperties
<1>8. \A j \in Ids : msgs'[j] = IF j = m THEN h ELSE msgs[j]
  BY <1>6, <1>7 DEF Ids
<1>9. msgs'[m] = h
  BY <1>8
<1>10. Len(msgs') = Len(msgs) + 1 /\ msgs'[Len(msgs')] = n
  BY <1>6, <1>7
<1>11. Same(m)
  BY <1>2, <1>9 DEF Same
<1>12. msgs'[m].awaits = Len(msgs')
  BY <1>2, <1>9, <1>10
<1>. QED  BY <1>2, <1>7, <1>8, <1>9, <1>10, <1>11, <1>12 DEF Sends1, H, n

\* A handler that found a saga which accepts its event.
LEMMA HasFound ==
    ASSUME NEW P, Phases \subseteq P, MessagesTyped(P), row \in Rows, NEW m \in Ids, Find(m)
    PROVE  /\ IsEvent(m)
           /\ msgs' \in Seq(Handlers(P))
           /\ Touches(m)
           /\ msgs'[m].awaits = msgs[m].awaits
           /\ Fits(msgs'[m])
           /\ \/ /\ Accepts(msgs[m].kind, FoundState)
                 /\ msgs'[m].phase = "saving"
                 /\ msgs'[m].version = FoundVersion(m)
              \/ /\ ~Accepts(msgs[m].kind, FoundState)
                 /\ msgs'[m].phase \in {"ready", "caught", "failed"}
                 /\ msgs'[m].version = msgs[m].version
<1>. DEFINE h == [msgs[m] EXCEPT !.phase = "saving", !.version = FoundVersion(m)]
<1>0. IsEvent(m)
  BY DEF Find
<1>1. msgs[m] \in Handlers(P) /\ msgs \in Seq(Handlers(P))
  BY ElementOfSeq DEF MessagesTyped, Ids
<1>2. CASE Accepts(msgs[m].kind, FoundState)
  <2>1. FoundVersion(m) \in Nat /\ "saving" \in P
    BY <1>1 DEF FoundVersion, Rows, Handlers, Phases
  <2>2. h \in Handlers(P) /\ h.kind = msgs[m].kind /\ h.parent = msgs[m].parent
        /\ h.header = msgs[m].header
    BY <1>1, <2>1 DEF Handlers
  <2>3. h.phase = "saving" /\ h.version = FoundVersion(m) /\ h.awaits = msgs[m].awaits
    BY <1>1 DEF Handlers
  <2>4. msgs' = [msgs EXCEPT ![m] = h]
    BY <1>2 DEF Find
  <2>5. h.kind \in Events
    BY <1>0, <2>2 DEF IsEvent
  <2>. HIDE DEF h
  <2>6. /\ msgs' \in Seq(Handlers(P))
        /\ Touches(m)
        /\ msgs'[m] = h
    BY <1>1, <2>2, <2>4, Replaced
  <2>. QED  BY <1>0, <1>2, <2>3, <2>5, <2>6 DEF Fits
<1>3. CASE ~Accepts(msgs[m].kind, FoundState)
  <2>1. msgs' = Failed(m)
    BY <1>3 DEF Find
  <2>. QED  BY <1>0, <1>3, <2>1, HasFailed
<1>. QED  BY <1>2, <1>3

\* The row and the handler after a save that the handler heard of.
LEMMA HasSaved ==
    ASSUME NEW P, Phases \subseteq P, MessagesTyped(P), row \in Rows, NEW m \in Ids, Save(m)
    PROVE  /\ IsEvent(m) /\ msgs[m].phase = "saving" /\ CanSaveNow(m)
           /\ row' = Saved(Target[msgs[m].kind]) /\ row' \in Rows
           /\ msgs' \in Seq(Handlers(P))
           /\ Touches(m)
           /\ msgs'[m].version = row'.version
           /\ msgs'[m].awaits = msgs[m].awaits
           /\ Fits(msgs'[m])
           /\ msgs'[m].phase = IF msgs[m].kind \in DOMAIN CommandOf THEN "saved"
                               ELSE AfterCommand(msgs[m].kind)
<1>. DEFINE kind == msgs[m].kind
            next == IF kind \in DOMAIN CommandOf THEN "saved" ELSE AfterCommand(kind)
            h == [msgs[m] EXCEPT !.phase = next, !.version = row'.version]
<1>1. msgs[m] \in Handlers(P) /\ msgs \in Seq(Handlers(P)) /\ Fits(msgs[m])
  BY ElementOfSeq DEF MessagesTyped, Ids
<1>2. msgs[m].phase = "saving" /\ CanSaveNow(m) /\ row' = Saved(Target[kind])
  BY DEF Save, Is
<1>3. kind \in Events /\ IsEvent(m)
  BY <1>1, <1>2 DEF Fits, IsEvent
<1>4. row' \in Rows
  <2>1. Target[kind] \in States
    BY <1>3 DEF States
  <2>. QED  BY <1>2, <2>1 DEF Saved, AfterSave, Rows
<1>5. next \in P
  BY DEF AfterCommand, Phases
<1>6. row'.version \in Nat
  BY <1>4 DEF Rows
<1>7. msgs' = [msgs EXCEPT ![m] = h]
  BY DEF Save
<1>8. next = "saved" => kind \in DOMAIN CommandOf
  BY DEF AfterCommand
<1>9. next = "answered" => kind \in FinalEvents
  BY DEF AfterCommand
<1>10. next \in {"saved", "answered", "finished"}
  BY DEF AfterCommand
<1>. HIDE DEF next
<1>11. h \in Handlers(P)
  BY <1>1, <1>5, <1>6 DEF Handlers
<1>12. h.kind = kind /\ h.parent = msgs[m].parent /\ h.header = msgs[m].header
       /\ h.phase = next /\ h.version = row'.version /\ h.awaits = msgs[m].awaits
  BY <1>1 DEF Handlers
<1>13. Fits(h)
  BY <1>8, <1>9, <1>10, <1>12 DEF Fits
<1>. HIDE DEF h
<1>14. /\ msgs' \in Seq(Handlers(P))
       /\ Touches(m)
       /\ msgs'[m] = h
  BY <1>1, <1>7, <1>11, <1>12, Replaced
<1>. QED  BY <1>2, <1>3, <1>4, <1>12, <1>13, <1>14 DEF next

\* A reply goes to the handler that waits for it, if it still does.
LEMMA HasAnswered ==
    ASSUME NEW P, Phases \subseteq P, MessagesTyped(P), NEW m \in Ids, msgs' = Answered(m)
    PROVE  /\ msgs' \in Seq(Handlers(P))
           /\ Len(msgs') = Len(msgs)
           /\ \A i \in Ids :
                 /\ Same(i)
                 /\ msgs'[i].version = msgs[i].version
                 /\ msgs'[i].awaits = msgs[i].awaits
                 /\ Fits(msgs'[i])
                 /\ \/ i = m /\ msgs'[i].phase = "acking"
                    \/ /\ i # m /\ i = msgs[m].parent
                       /\ msgs[i].phase = "waiting" /\ msgs[i].awaits = m
                       /\ msgs'[i].phase = AfterCommand(msgs[i].kind)
                    \/ i # m /\ msgs'[i] = msgs[i]
<1>. DEFINE p == msgs[m].parent
            waits == p # 0 /\ Is(p, "waiting") /\ msgs[p].awaits = m
            e(i) == IF i = m THEN [msgs[m] EXCEPT !.phase = "acking"]
                    ELSE IF i = p /\ waits
                    THEN [msgs[p] EXCEPT !.phase = AfterCommand(msgs[p].kind)]
                    ELSE msgs[i]
<1>1. msgs \in Seq(Handlers(P)) /\ Len(msgs) \in Nat
  BY LenProperties DEF MessagesTyped
<1>2. \A i \in Ids : msgs[i] \in Handlers(P) /\ Fits(msgs[i])
  BY <1>1, ElementOfSeq DEF MessagesTyped, Ids
<1>3. "acking" \in P /\ "answered" \in P /\ "finished" \in P
  BY DEF Phases
<1>4. msgs' = [i \in 1 .. Len(msgs) |-> e(i)]
  BY DEF Answered, Ids
<1>5. ASSUME NEW i \in Ids
      PROVE  /\ e(i) \in Handlers(P)
             /\ e(i).kind = msgs[i].kind /\ e(i).parent = msgs[i].parent
             /\ e(i).header = msgs[i].header
             /\ e(i).version = msgs[i].version /\ e(i).awaits = msgs[i].awaits
             /\ Fits(e(i))
             /\ \/ i = m /\ e(i).phase = "acking"
                \/ /\ i # m /\ i = msgs[m].parent
                   /\ msgs[i].phase = "waiting" /\ msgs[i].awaits = m
                   /\ e(i).phase = AfterCommand(msgs[i].kind)
                \/ i # m /\ e(i) = msgs[i]
  <2>1. CASE i = m
    <3>1. e(i) = [msgs[i] EXCEPT !.phase = "acking"]
      BY <2>1
    <3>. HIDE DEF e
    <3>. QED  BY <1>2, <1>3, <2>1, <3>1 DEF Handlers, Fits
  <2>2. CASE i # m /\ i = p /\ waits
    <3>1. e(i) = [msgs[i] EXCEPT !.phase = AfterCommand(msgs[i].kind)]
      BY <2>2
    <3>2. AfterCommand(msgs[i].kind) \in {"answered", "finished"}
          /\ (AfterCommand(msgs[i].kind) = "answered" => msgs[i].kind \in FinalEvents)
      BY DEF AfterCommand
    <3>3. msgs[i].phase = "waiting" /\ msgs[i].awaits = m
      BY <2>2 DEF Is
    <3>4. i = msgs[m].parent
      BY <2>2
    <3>. HIDE DEF e
    <3>5. msgs[i] \in Handlers(P)
      BY <1>2
    <3>6. AfterCommand(msgs[i].kind) \in P
      BY <1>3, <3>2
    <3>7. e(i) \in Handlers(P) /\ e(i).phase = AfterCommand(msgs[i].kind)
          /\ e(i).kind = msgs[i].kind /\ e(i).parent = msgs[i].parent
          /\ e(i).header = msgs[i].header
          /\ e(i).version = msgs[i].version /\ e(i).awaits = msgs[i].awaits
      BY <3>1, <3>5, <3>6 DEF Handlers
    <3>8. Fits(e(i))
      BY <3>2, <3>7 DEF Fits
    <3>. QED  BY <2>2, <3>3, <3>4, <3>7, <3>8
  <2>3. CASE i # m /\ ~(i = p /\ waits)
    <3>1. e(i) = msgs[i]
      BY <2>3
    <3>. HIDE DEF e
    <3>. QED  BY <1>2, <2>3, <3>1
  <2>. QED  BY <2>1, <2>2, <2>3
<1>. HIDE DEF e
<1>6. Ids = 1 .. Len(msgs)
  BY DEF Ids
<1>7. [i \in 1 .. Len(msgs) |-> e(i)] \in Seq(Handlers(P))
  BY <1>1, <1>5, <1>6, IsASeq
<1>8. msgs' \in Seq(Handlers(P))
  BY <1>4, <1>7
<1>9. Len(msgs') = Len(msgs)
  <2>1. DOMAIN msgs' = 1 .. Len(msgs)
    BY <1>4
  <2>2. DOMAIN msgs' = 1 .. Len(msgs') /\ Len(msgs') \in Nat
    BY <1>8, LenProperties
  <2>. QED  BY <1>1, <2>1, <2>2
<1>10. \A i \in Ids : msgs'[i] = e(i)
  BY <1>4, <1>6
<1>. QED  BY <1>5, <1>8, <1>9, <1>10 DEF Same

\* A crash sends the messages of its process back to their queues.
LEMMA HasCrashed ==
    ASSUME NEW P, Phases \subseteq P, MessagesTyped(P), NEW process, Crash(process)
    PROVE  /\ msgs' \in Seq(Handlers(P))
           /\ Len(msgs') = Len(msgs)
           /\ \A i \in Ids :
                 /\ Same(i)
                 /\ Fits(msgs'[i])
                 /\ \/ msgs'[i] = msgs[i]
                    \/ /\ msgs'[i].phase = "queued" /\ msgs'[i].tries = 0
                       /\ msgs'[i].version = msgs[i].header /\ msgs'[i].awaits = 0
<1>. DEFINE dead == {m \in Ids : InFlight(m) /\ msgs[m].kind \in process}
            e(i) == IF i \in dead
                    THEN [msgs[i] EXCEPT !.phase = "queued", !.tries = 0,
                                         !.version = msgs[i].header, !.awaits = 0]
                    ELSE msgs[i]
<1>1. msgs \in Seq(Handlers(P)) /\ Len(msgs) \in Nat
  BY LenProperties DEF MessagesTyped
<1>2. \A i \in Ids : msgs[i] \in Handlers(P) /\ Fits(msgs[i])
  BY <1>1, ElementOfSeq DEF MessagesTyped, Ids
<1>3. "queued" \in P /\ 0 \in 0 .. MaxTries
  BY SagaAssumption DEF Phases
<1>4. msgs' = [i \in 1 .. Len(msgs) |-> e(i)]
  BY DEF Crash, Ids
<1>. HIDE DEF dead
<1>5. ASSUME NEW i \in Ids
      PROVE  /\ e(i) \in Handlers(P)
             /\ e(i).kind = msgs[i].kind /\ e(i).parent = msgs[i].parent
             /\ e(i).header = msgs[i].header
             /\ Fits(e(i))
             /\ \/ e(i) = msgs[i]
                \/ /\ e(i).phase = "queued" /\ e(i).tries = 0
                   /\ e(i).version = msgs[i].header /\ e(i).awaits = 0
  <2>1. CASE i \in dead
    <3>1. e(i) = [msgs[i] EXCEPT !.phase = "queued", !.tries = 0,
                                 !.version = msgs[i].header, !.awaits = 0]
      BY <2>1
    <3>. HIDE DEF e
    <3>2. msgs[i] \in Handlers(P) /\ msgs[i].header \in Nat
      BY <1>2 DEF Handlers
    <3>c. e(i) = [kind |-> msgs[i].kind, parent |-> msgs[i].parent, header |-> msgs[i].header,
                  phase |-> "queued", tries |-> 0, version |-> msgs[i].header, awaits |-> 0]
      BY <3>1, <3>2 DEF Handlers
    <3>d. msgs[i].kind \in Events \cup Commands /\ msgs[i].parent \in Nat
      BY <3>2 DEF Handlers
    <3>a. e(i) \in Handlers(P)
      BY <1>3, <3>2, <3>c, <3>d DEF Handlers
    <3>b. e(i).version = msgs[i].header /\ e(i).awaits = 0
      BY <3>1, <3>2 DEF Handlers
    <3>3. e(i) \in Handlers(P) /\ e(i).phase = "queued" /\ e(i).tries = 0
          /\ e(i).version = msgs[i].header /\ e(i).awaits = 0
          /\ e(i).kind = msgs[i].kind /\ e(i).parent = msgs[i].parent
          /\ e(i).header = msgs[i].header
      BY <3>1, <3>2, <3>a, <3>b DEF Handlers
    <3>. QED  BY <3>3 DEF Fits
  <2>2. CASE i \notin dead
    <3>1. e(i) = msgs[i]
      BY <2>2
    <3>. HIDE DEF e
    <3>. QED  BY <1>2, <3>1
  <2>. QED  BY <2>1, <2>2
<1>. HIDE DEF e
<1>6. Ids = 1 .. Len(msgs)
  BY DEF Ids
<1>7. [i \in 1 .. Len(msgs) |-> e(i)] \in Seq(Handlers(P))
  BY <1>1, <1>5, <1>6, IsASeq
<1>8. msgs' \in Seq(Handlers(P))
  BY <1>4, <1>7
<1>9. Len(msgs') = Len(msgs)
  <2>1. DOMAIN msgs' = 1 .. Len(msgs)
    BY <1>4
  <2>2. DOMAIN msgs' = 1 .. Len(msgs') /\ Len(msgs') \in Nat
    BY <1>8, LenProperties
  <2>. QED  BY <1>1, <2>1, <2>2
<1>10. \A i \in Ids : msgs'[i] = e(i)
  BY <1>4, <1>6
<1>. QED  BY <1>5, <1>8, <1>9, <1>10 DEF Same

\* What is left to show after a step that changes one handler, or sends.
LEMMA TouchTyped ==
    ASSUME NEW P, MessagesTyped(P), NEW m \in Ids, msgs' \in Seq(Handlers(P)), Touches(m),
           Fits(msgs'[m]), msgs'[m].awaits = msgs[m].awaits
    PROVE  MessagesTyped(P)'
<1>1. Ids' = Ids
  BY DEF Ids, Touches
<1>2. ASSUME NEW i \in Ids
      PROVE  /\ Fits(msgs'[i])
             /\ msgs'[i].parent \in 0 .. i - 1
             /\ msgs'[i].awaits \in {0} \cup i + 1 .. Len(msgs')
  BY <1>2 DEF MessagesTyped, Touches, Same
<1>. QED  BY <1>1, <1>2 DEF MessagesTyped, Fits

LEMMA SendTyped ==
    ASSUME NEW P, MessagesTyped(P), NEW m \in Ids, msgs' \in Seq(Handlers(P)),
           NEW kind, NEW header, Sends1(m, kind, header),
           msgs[m].kind \in Events => msgs[m].kind \in DOMAIN CommandOf
    PROVE  MessagesTyped(P)'
<1>. DEFINE n == Len(msgs) + 1
<1>0. Len(msgs) \in Nat /\ m \in 1 .. Len(msgs)
  BY LenProperties DEF MessagesTyped, Ids
<1>1. Ids' = Ids \cup {n} /\ Len(msgs') = n
  BY <1>0 DEF Ids, Sends1
<1>2. ASSUME NEW i \in Ids, i # m
      PROVE  /\ Fits(msgs'[i])
             /\ msgs'[i].parent \in 0 .. i - 1
             /\ msgs'[i].awaits \in {0} \cup i + 1 .. Len(msgs')
  <2>1. msgs'[i] = msgs[i]
    BY <1>2 DEF Sends1
  <2>2. msgs[i].awaits \in {0} \cup i + 1 .. Len(msgs) /\ msgs[i].parent \in 0 .. i - 1
        /\ Fits(msgs[i])
    BY DEF MessagesTyped
  <2>. QED  BY <1>0, <1>1, <2>1, <2>2 DEF Ids
<1>3. /\ Fits(msgs'[m])
      /\ msgs'[m].parent \in 0 .. m - 1
      /\ msgs'[m].awaits \in {0} \cup m + 1 .. Len(msgs')
  <2>1. msgs'[m].phase = "waiting" /\ msgs'[m].awaits = n /\ Same(m)
    BY <1>1 DEF Sends1
  <2>2. msgs[m].parent \in 0 .. m - 1
    BY DEF MessagesTyped
  <2>. QED  BY <1>0, <1>1, <2>1, <2>2 DEF Fits, Same
<1>4. /\ Fits(msgs'[n])
      /\ msgs'[n].parent \in 0 .. n - 1
      /\ msgs'[n].awaits \in {0} \cup n + 1 .. Len(msgs')
  <2>1. msgs'[n].phase = "queued" /\ msgs'[n].awaits = 0 /\ msgs'[n].parent = m
    BY <1>1 DEF Sends1, Message
  <2>. QED  BY <1>0, <2>1 DEF Fits
<1>. QED  BY <1>1, <1>2, <1>3, <1>4 DEF MessagesTyped, Fits

\* What finalize leaves of the row.
LEMMA RemovedTyped == row \in Rows => RemovedRow \in Rows
<1>. SUFFICES ASSUME row \in Rows PROVE RemovedRow \in Rows
  OBVIOUS
<1>1. CASE Archives /\ Durable
  <2>1. Exists(row) \in BOOLEAN
    BY DEF Exists, Rows
  <2>2. RemovedRow = [row EXCEPT !.archived = Exists(row)]
    BY <1>1 DEF RemovedRow, AfterArchive
  <2>. QED  BY <2>1, <2>2 DEF Rows
<1>2. CASE ~(Archives /\ Durable)
  BY <1>2 DEF RemovedRow, AfterDelete, Rows, States
<1>. QED  BY <1>1, <1>2

\* Every step of a handler keeps the types.
LEMMA AdvanceTyped ==
    ASSUME NEW P, Phases \subseteq P, Typed(P), NEW m \in Ids, Advance(m)
    PROVE  Typed(P)'
<1>0. /\ MessagesTyped(P) /\ row \in Rows
      /\ crashes \in 0 .. MaxCrashes /\ faults \in 0 .. MaxFaults
  BY DEF Typed
<1>1. msgs \in Seq(Handlers(P)) /\ msgs[m] \in Handlers(P) /\ Fits(msgs[m])
  BY <1>0, ElementOfSeq DEF MessagesTyped, Ids
<1>2. CASE Find(m)
  <2>1. MessagesTyped(P)'
    BY <1>0, <1>2, HasFound, TouchTyped
  <2>. QED  BY <1>0, <1>2, <2>1 DEF Find, Typed
<1>3. CASE Save(m)
  <2>1. MessagesTyped(P)' /\ row' \in Rows
    BY <1>0, <1>3, HasSaved, TouchTyped
  <2>. QED  BY <1>0, <1>3, <2>1 DEF Save, Typed
<1>4. CASE SaveConflict(m)
  <2>1. MessagesTyped(P)'
    BY <1>0, <1>4, HasFailed, TouchTyped DEF SaveConflict
  <2>. QED  BY <1>0, <1>4, <2>1 DEF SaveConflict, Typed
<1>5. CASE SendCommand(m)
  <2>1. msgs[m].kind \in DOMAIN CommandOf /\ msgs' = Sent(m, CommandOf[msgs[m].kind], msgs[m].version)
    BY <1>1, <1>5 DEF SendCommand, Is, Fits
  <2>2. CommandOf[msgs[m].kind] \in Events \cup Commands /\ msgs[m].version \in Nat
    BY <1>1, <2>1, SagaAssumption DEF Handlers
  <2>3. MessagesTyped(P)'
    BY <1>0, <2>1, <2>2, HasSent, SendTyped
  <2>. QED  BY <1>0, <1>5, <2>3 DEF SendCommand, Typed
<1>6. CASE Finalize(m)
  <2>1. "finished" \in P
    BY DEF Phases
  <2>2. /\ msgs' \in Seq(Handlers(P))
        /\ Touches(m)
        /\ msgs'[m] = [msgs[m] EXCEPT !.phase = "finished"]
    BY <1>0, <1>6, <2>1, WentTo DEF Finalize
  <2>3. MessagesTyped(P)'
    <3>1. msgs'[m].phase = "finished" /\ msgs'[m].awaits = msgs[m].awaits
      BY <1>1, <2>2 DEF Handlers
    <3>2. Fits(msgs'[m])
      BY <3>1 DEF Fits
    <3>. QED  BY <1>0, <2>2, <3>1, <3>2, TouchTyped
  <2>4. RemovedRow \in Rows
    BY <1>0, RemovedTyped
  <2>. QED  BY <1>0, <1>6, <2>3, <2>4 DEF Finalize, Typed
<1>7. CASE HandleCommand(m)
  <2>1. msgs[m].kind \in DOMAIN Outcomes /\ msgs[m].kind \in Commands
    BY <1>7, SagaAssumption DEF HandleCommand
  <2>2. msgs[m].kind \notin Events /\ msgs[m].header \in Nat
    BY <1>1, <2>1, SagaAssumption DEF Handlers
  <2>3. ASSUME NEW event \in Outcomes[msgs[m].kind], msgs' = Sent(m, event, msgs[m].header)
        PROVE  MessagesTyped(P)'
    <3>1. event \in Events
      BY <2>1, SagaAssumption
    <3>. QED  BY <1>0, <2>2, <2>3, <3>1, HasSent, SendTyped
  <2>4. ASSUME msgs' = Goto(m, "finished")
        PROVE  MessagesTyped(P)'
    <3>0. "finished" \in P
      BY DEF Phases
    <3>1. /\ msgs' \in Seq(Handlers(P))
          /\ Touches(m)
          /\ msgs'[m] = [msgs[m] EXCEPT !.phase = "finished"]
      BY <1>0, <2>4, <3>0, WentTo
    <3>2. msgs'[m].phase = "finished" /\ msgs'[m].awaits = msgs[m].awaits
      BY <1>1, <3>1 DEF Handlers
    <3>3. Fits(msgs'[m])
      BY <3>2 DEF Fits
    <3>. QED  BY <1>0, <3>1, <3>2, <3>3, TouchTyped
  <2>. QED  BY <1>0, <1>7, <2>3, <2>4 DEF HandleCommand, Typed
<1>8. CASE SendFallback(m)
  <2>1. msgs[m].kind \in DOMAIN Fallback /\ msgs' = Sent(m, Fallback[msgs[m].kind], msgs[m].header)
    BY <1>1, <1>8 DEF SendFallback, Is, Fits
  <2>2. Fallback[msgs[m].kind] \in Events \cup Commands /\ msgs[m].header \in Nat
        /\ msgs[m].kind \notin Events
    BY <1>1, <2>1, SagaAssumption DEF Handlers
  <2>3. MessagesTyped(P)'
    BY <1>0, <2>1, <2>2, HasSent, SendTyped
  <2>. QED  BY <1>0, <1>8, <2>3 DEF SendFallback, Typed
<1>9. CASE Reply(m)
  <2>1. /\ msgs' \in Seq(Handlers(P))
        /\ Len(msgs') = Len(msgs)
        /\ \A i \in Ids : Same(i) /\ msgs'[i].awaits = msgs[i].awaits /\ Fits(msgs'[i])
    BY <1>0, <1>9, HasAnswered DEF Reply
  <2>2. MessagesTyped(P)'
    BY <1>0, <2>1 DEF MessagesTyped, Same, Ids, Fits
  <2>. QED  BY <1>0, <1>9, <2>2 DEF Reply, Typed
<1>10. CASE Ack(m)
  <2>0. "done" \in P
    BY DEF Phases
  <2>1. /\ msgs' \in Seq(Handlers(P))
        /\ Touches(m)
        /\ msgs'[m] = [msgs[m] EXCEPT !.phase = "done"]
    BY <1>0, <1>10, <2>0, WentTo DEF Ack
  <2>2. msgs'[m].phase = "done" /\ msgs'[m].awaits = msgs[m].awaits
    BY <1>1, <2>1 DEF Handlers
  <2>3. Fits(msgs'[m])
    BY <2>2 DEF Fits
  <2>4. MessagesTyped(P)'
    BY <1>0, <2>1, <2>2, <2>3, TouchTyped
  <2>. QED  BY <1>0, <1>10, <2>4 DEF Ack, Typed
<1>11. CASE Timeout(m)
  <2>1. MessagesTyped(P)'
    BY <1>0, <1>11, HasFailed, TouchTyped DEF Timeout
  <2>. QED  BY <1>0, <1>11, <2>1 DEF Timeout, Typed
<1>. QED  BY <1>2, <1>3, <1>4, <1>5, <1>6, <1>7, <1>8, <1>9, <1>10, <1>11 DEF Advance

\* Failures keep them too.
LEMMA DisturbTyped ==
    ASSUME NEW P, Phases \subseteq P, Typed(P), NEW m \in Ids, Disturb(m)
    PROVE  Typed(P)'
<1>0. /\ MessagesTyped(P) /\ row \in Rows
      /\ crashes \in 0 .. MaxCrashes /\ faults \in 0 .. MaxFaults
  BY DEF Typed
<1>1. msgs \in Seq(Handlers(P)) /\ msgs[m] \in Handlers(P) /\ Fits(msgs[m])
  BY <1>0, ElementOfSeq DEF MessagesTyped, Ids
<1>2. msgs' = Failed(m) /\ Fault
  BY DEF Disturb, SaveAnswerLost, FinalizeAnswerLost, CallFails, TimeoutTooSoon
<1>3. MessagesTyped(P)'
  BY <1>0, <1>2, HasFailed, TouchTyped
<1>4. faults' \in 0 .. MaxFaults
  BY <1>0, <1>2, SagaAssumption DEF Fault
<1>5. crashes' = crashes
  BY DEF Disturb, SaveAnswerLost, FinalizeAnswerLost, CallFails, TimeoutTooSoon
<1>6. row' \in Rows
  <2>1. CASE SaveAnswerLost(m)
    <3>1. msgs[m].kind \in Events /\ row' = AfterSave(row, Target[msgs[m].kind])
      BY <1>1, <2>1 DEF SaveAnswerLost, Is, Fits
    <3>2. Target[msgs[m].kind] \in States
      BY <3>1 DEF States
    <3>. QED  BY <1>0, <3>1, <3>2 DEF AfterSave, Rows
  <2>2. CASE FinalizeAnswerLost(m)
    <3>1. RemovedRow \in Rows
      BY <1>0, RemovedTyped
    <3>. QED  BY <2>2, <3>1 DEF FinalizeAnswerLost
  <2>. QED  BY <1>0, <2>1, <2>2 DEF Disturb, CallFails, TimeoutTooSoon
<1>. QED  BY <1>0, <1>3, <1>4, <1>5, <1>6 DEF Typed

LEMMA CrashTyped ==
    ASSUME NEW P, Phases \subseteq P, Typed(P), NEW process, Crash(process)
    PROVE  Typed(P)'
<1>0. /\ MessagesTyped(P) /\ row \in Rows
      /\ crashes \in 0 .. MaxCrashes /\ faults \in 0 .. MaxFaults
  BY DEF Typed
<1>1. /\ msgs' \in Seq(Handlers(P))
      /\ Len(msgs') = Len(msgs)
      /\ \A i \in Ids :
            /\ Same(i)
            /\ Fits(msgs'[i])
            /\ msgs'[i].awaits \in {0, msgs[i].awaits}
  <2>1. \A i \in Ids : msgs'[i] = msgs[i] \/ msgs'[i].awaits = 0
    BY <1>0, HasCrashed
  <2>. QED  BY <1>0, <2>1, HasCrashed
<1>2. MessagesTyped(P)'
  BY <1>0, <1>1 DEF MessagesTyped, Same, Ids, Fits
<1>3. crashes' \in 0 .. MaxCrashes /\ faults' = faults
  <2>1. MaxCrashes \in Nat
    BY SagaAssumption
  <2>2. crashes < MaxCrashes /\ crashes' = crashes + 1 /\ faults' = faults
    BY DEF Crash
  <2>. QED  BY <1>0, <2>1, <2>2
<1>4. row' \in Rows
  BY <1>0 DEF Crash, NoRow, AfterDelete, Rows, States
<1>. QED  BY <1>0, <1>2, <1>3, <1>4 DEF Typed

LEMMA InitTyped == ASSUME NEW P, Phases \subseteq P PROVE Init => Typed(P)
<1>. SUFFICES ASSUME Init PROVE Typed(P)
  OBVIOUS
<1>. DEFINE h == Message(Starting, 0, 0)
<1>1. /\ h \in Handlers(P) /\ h.phase = "queued" /\ h.parent = 0 /\ h.awaits = 0
      /\ Submissions \in Nat
  BY SagaAssumption DEF Message, Handlers, Phases
<1>2. msgs = [i \in 1 .. Submissions |-> h]
  BY DEF Init
<1>. HIDE DEF h
<1>3. msgs \in [1 .. Submissions -> Handlers(P)]
  BY <1>1, <1>2
<1>4. msgs \in Seq(Handlers(P)) /\ Len(msgs) = Submissions
  BY <1>1, <1>3
<1>5. \A m \in Ids : msgs[m] = h /\ m \in Nat \ {0}
  BY <1>1, <1>2, <1>4 DEF Ids
<1>6. Fits(h)
  BY <1>1 DEF Fits
<1>7. MessagesTyped(P)
  BY <1>1, <1>4, <1>5, <1>6 DEF MessagesTyped
<1>8. row \in Rows
  BY DEF Init, NoRow, AfterDelete, Rows, States
<1>. QED  BY <1>7, <1>8, SagaAssumption DEF Init, Typed

LEMMA TypedInvariant == Spec => []Typed(Phases)
<1>1. Init => Typed(Phases)
  BY InitTyped
<1>2. Typed(Phases) /\ [Next]_vars => Typed(Phases)'
  <2>. SUFFICES ASSUME Typed(Phases), [Next]_vars PROVE Typed(Phases)'
    OBVIOUS
  <2>1. CASE UNCHANGED vars
    BY <2>1 DEF vars, Typed, MessagesTyped, Ids, Fits
  <2>2. CASE Progress
    BY <2>2, AdvanceTyped DEF Progress
  <2>3. CASE \E m \in Ids : Disturb(m)
    BY <2>3, DisturbTyped
  <2>4. CASE \E process \in Processes : Crash(process)
    BY <2>4, CrashTyped
  <2>. QED  BY <2>1, <2>2, <2>3, <2>4 DEF Next
<1>. QED  BY <1>1, <1>2, PTL DEF Spec

\* Every reachable row and handler is typed: a message has an earlier parent, and
\* waits only for a later one.
THEOREM TypeCorrect == Spec => []TypeOK
<1>1. Typed(Phases) => TypeOK
  <2>. SUFFICES ASSUME Typed(Phases) PROVE TypeOK
    OBVIOUS
  <2>1. \A m \in Ids : msgs[m] \in Handlers(Phases)
    BY ElementOfSeq DEF Typed, MessagesTyped, Ids
  <2>. QED  BY <2>1 DEF Typed, MessagesTyped, Rows, Handlers, TypeOK
<1>. QED  BY <1>1, TypedInvariant, PTL

-----------------------------------------------------------------------------
\* Who sent a message, and whose answer a handler waits for.

LinkedCommand(m) ==
    /\ msgs[m].parent # 0
    /\ msgs[msgs[m].parent].kind \in DOMAIN CommandOf
    /\ msgs[m].kind = CommandOf[msgs[msgs[m].parent].kind]
    /\ msgs[m].phase \in {"waiting", "caught"} => Calls(m)
    /\ msgs[m].phase = "waiting" =>
           /\ msgs[m].awaits # 0
           /\ IsEvent(msgs[m].awaits) /\ msgs[msgs[m].awaits].parent = m

LinkedEvent(m) ==
    /\ IF msgs[m].parent = 0 THEN msgs[m].header = 0
       ELSE /\ ~IsEvent(msgs[m].parent) /\ Calls(msgs[m].parent)
            /\ msgs[m].header = msgs[msgs[m].parent].header
    /\ msgs[m].phase = "waiting" =>
           /\ msgs[m].awaits # 0
           /\ ~IsEvent(msgs[m].awaits) /\ msgs[msgs[m].awaits].parent = m
           /\ msgs[msgs[m].awaits].header = msgs[m].version

Linked == \A m \in Ids : IF IsEvent(m) THEN LinkedEvent(m) ELSE LinkedCommand(m)

\* Messages are events or commands, and commands are no events.
LEMMA Kinds ==
    ASSUME MessagesTyped(Phases)
    PROVE  /\ Len(msgs) \in Nat
           /\ \A m \in Ids :
                 /\ msgs[m] \in Handlers(Phases) /\ Fits(msgs[m]) /\ m \in Nat \ {0}
                 /\ msgs[m].parent \in {0} \cup Ids /\ msgs[m].parent # m
                 /\ msgs[m].awaits \in {0} \cup Ids /\ msgs[m].awaits # m
                 /\ IsEvent(m) \/ msgs[m].kind \in Commands
                 /\ IsEvent(m) => msgs[m].kind \notin Commands
                 /\ msgs[m].phase = "caught" => ~IsEvent(m)
<1>1. msgs \in Seq(Handlers(Phases)) /\ Len(msgs) \in Nat
  BY LenProperties DEF MessagesTyped
<1>2. ASSUME NEW m \in Ids
      PROVE  /\ msgs[m] \in Handlers(Phases) /\ Fits(msgs[m]) /\ m \in Nat \ {0}
             /\ msgs[m].parent \in {0} \cup Ids /\ msgs[m].parent # m
             /\ msgs[m].awaits \in {0} \cup Ids /\ msgs[m].awaits # m
             /\ IsEvent(m) \/ msgs[m].kind \in Commands
             /\ IsEvent(m) => msgs[m].kind \notin Commands
             /\ msgs[m].phase = "caught" => ~IsEvent(m)
  <2>1. msgs[m] \in Handlers(Phases) /\ m \in 1 .. Len(msgs)
    BY <1>1, ElementOfSeq DEF Ids
  <2>2. /\ Fits(msgs[m])
        /\ msgs[m].parent \in 0 .. m - 1
        /\ msgs[m].awaits \in {0} \cup m + 1 .. Len(msgs)
    BY DEF MessagesTyped
  <2>3. /\ msgs[m].parent \in {0} \cup Ids /\ msgs[m].parent # m
        /\ msgs[m].awaits \in {0} \cup Ids /\ msgs[m].awaits # m
    BY <1>1, <2>1, <2>2 DEF Ids
  <2>4. msgs[m].kind \in Events \cup Commands
    BY <2>1 DEF Handlers
  <2>. QED  BY <2>1, <2>2, <2>3, <2>4, SagaAssumption DEF IsEvent, Fits
<1>. QED  BY <1>1, <1>2

\* A step that sends nothing keeps the links.
LEMMA LinkedKept ==
    ASSUME MessagesTyped(Phases), Linked, Len(msgs') = Len(msgs),
           \A i \in Ids :
               /\ Same(i)
               /\ msgs'[i].phase = "waiting" =>
                      /\ msgs[i].phase = "waiting"
                      /\ msgs'[i].awaits = msgs[i].awaits
                      /\ msgs'[i].version = msgs[i].version
               /\ msgs'[i].phase = "caught" => msgs[i].phase = "caught" \/ Calls(i)
    PROVE  Linked'
<1>1. Ids' = Ids
  BY DEF Ids
<1>2. ASSUME NEW i \in Ids PROVE (IsEvent(i)' <=> IsEvent(i)) /\ (Calls(i)' <=> Calls(i))
  BY DEF IsEvent, Calls, Same
<1>3. ASSUME NEW i \in Ids, IsEvent(i) PROVE LinkedEvent(i)'
  <2>1. LinkedEvent(i)
    BY <1>3 DEF Linked
  <2>2. PICK p \in {0} \cup Ids : p = msgs[i].parent
    BY Kinds
  <2>3. PICK a \in {0} \cup Ids : a = msgs[i].awaits
    BY Kinds
  <2>4. msgs'[i].parent = p /\ msgs'[i].header = msgs[i].header
    BY <2>2 DEF Same
  <2>5. p = 0 => msgs'[i].header = 0
    BY <2>1, <2>2, <2>4 DEF LinkedEvent
  <2>6. p # 0 => ~IsEvent(p)' /\ Calls(p)' /\ msgs'[i].header = msgs'[p].header
    <3>. SUFFICES ASSUME p # 0 PROVE ~IsEvent(p)' /\ Calls(p)' /\ msgs'[i].header = msgs'[p].header
      OBVIOUS
    <3>1. p \in Ids /\ ~IsEvent(p) /\ Calls(p) /\ msgs[i].header = msgs[p].header
      BY <2>1, <2>2 DEF LinkedEvent
    <3>. QED  BY <1>2, <2>4, <3>1 DEF Same
  <2>7. msgs'[i].phase = "waiting" =>
            /\ msgs'[i].awaits = a /\ a # 0
            /\ ~IsEvent(a)' /\ msgs'[a].parent = i /\ msgs'[a].header = msgs'[i].version
    <3>. SUFFICES ASSUME msgs'[i].phase = "waiting"
                  PROVE  /\ msgs'[i].awaits = a /\ a # 0
                         /\ ~IsEvent(a)' /\ msgs'[a].parent = i
                         /\ msgs'[a].header = msgs'[i].version
      OBVIOUS
    <3>1. msgs[i].phase = "waiting" /\ msgs'[i].awaits = a /\ msgs'[i].version = msgs[i].version
      BY <2>3
    <3>2. a \in Ids /\ ~IsEvent(a) /\ msgs[a].parent = i /\ msgs[a].header = msgs[i].version
          /\ a # 0
      BY <2>1, <2>3, <3>1 DEF LinkedEvent
    <3>. QED  BY <1>2, <3>1, <3>2 DEF Same
  <2>. QED  BY <2>4, <2>5, <2>6, <2>7 DEF LinkedEvent
<1>4. ASSUME NEW i \in Ids, ~IsEvent(i) PROVE LinkedCommand(i)'
  <2>1. LinkedCommand(i)
    BY <1>4 DEF Linked
  <2>2. PICK p \in {0} \cup Ids : p = msgs[i].parent
    BY Kinds
  <2>3. PICK a \in {0} \cup Ids : a = msgs[i].awaits
    BY Kinds
  <2>4. /\ p \in Ids /\ p # 0
        /\ msgs[p].kind \in DOMAIN CommandOf
        /\ msgs[i].kind = CommandOf[msgs[p].kind]
    BY <2>1, <2>2 DEF LinkedCommand
  <2>5. /\ msgs'[i].parent = p
        /\ msgs'[p].kind \in DOMAIN CommandOf
        /\ msgs'[i].kind = CommandOf[msgs'[p].kind]
    BY <2>2, <2>4 DEF Same
  <2>6. msgs'[i].phase \in {"waiting", "caught"} => Calls(i)'
    BY <1>2, <2>1 DEF LinkedCommand
  <2>7. msgs'[i].phase = "waiting" =>
            msgs'[i].awaits = a /\ a # 0 /\ IsEvent(a)' /\ msgs'[a].parent = i
    <3>. SUFFICES ASSUME msgs'[i].phase = "waiting"
                  PROVE  msgs'[i].awaits = a /\ a # 0 /\ IsEvent(a)' /\ msgs'[a].parent = i
      OBVIOUS
    <3>1. msgs[i].phase = "waiting" /\ msgs'[i].awaits = a
      BY <2>3
    <3>2. a \in Ids /\ IsEvent(a) /\ msgs[a].parent = i /\ a # 0
      BY <2>1, <2>3, <3>1 DEF LinkedCommand
    <3>. QED  BY <1>2, <3>1, <3>2 DEF Same
  <2>. QED  BY <2>4, <2>5, <2>6, <2>7 DEF LinkedCommand
<1>5. \A i \in Ids : IF IsEvent(i)' THEN LinkedEvent(i)' ELSE LinkedCommand(i)'
  BY <1>2, <1>3, <1>4
<1>. QED  BY <1>1, <1>5 DEF Linked

\* The two ways to send: an event its command, and a consumer one of its events.
SendsCommand(m) ==
    /\ IsEvent(m) /\ msgs[m].kind \in DOMAIN CommandOf
    /\ Sends1(m, CommandOf[msgs[m].kind], msgs[m].version)

SendsEvent(m) ==
    /\ ~IsEvent(m) /\ Calls(m)
    /\ \E kind \in Events : Sends1(m, kind, msgs[m].header)

\* The message that was sent, and the others, after such a step.
LEMMA Sending ==
    ASSUME MessagesTyped(Phases), NEW m \in Ids, SendsCommand(m) \/ SendsEvent(m),
           NEW n, n = Len(msgs')
    PROVE  /\ Ids' = Ids \cup {n} /\ n \notin Ids /\ n # 0 /\ n # m
           /\ \A i \in Ids : i # m => msgs'[i] = msgs[i]
           /\ \A i \in Ids : Same(i) /\ msgs'[i].version = msgs[i].version
           /\ \A i \in Ids : (IsEvent(i)' <=> IsEvent(i)) /\ (Calls(i)' <=> Calls(i))
           /\ msgs'[m].phase = "waiting" /\ msgs'[m].awaits = n
           /\ msgs'[n].phase = "queued" /\ msgs'[n].parent = m
           /\ msgs'[n].version = msgs'[n].header
           /\ IF IsEvent(m)
              THEN /\ SendsCommand(m)
                   /\ msgs'[n].kind = CommandOf[msgs[m].kind] /\ msgs'[n].kind \in Commands
                   /\ msgs'[n].header = msgs[m].version /\ ~IsEvent(n)'
              ELSE SendsEvent(m) /\ msgs'[n].header = msgs[m].header /\ IsEvent(n)'
<1>0. Len(msgs) \in Nat /\ m \in 1 .. Len(msgs)
  BY Kinds DEF Ids
<1>1. PICK kind, header :
          /\ Sends1(m, kind, header)
          /\ IF IsEvent(m)
             THEN /\ SendsCommand(m) /\ kind = CommandOf[msgs[m].kind] /\ kind \in Commands
                  /\ header = msgs[m].version
             ELSE SendsEvent(m) /\ kind \in Events /\ header = msgs[m].header
  <2>1. CASE SendsCommand(m)
    BY <2>1, SagaAssumption DEF SendsCommand
  <2>2. CASE SendsEvent(m)
    BY <2>2 DEF SendsEvent
  <2>. QED  BY <2>1, <2>2
<1>2. n = Len(msgs) + 1 /\ Len(msgs') = n
  BY <1>1 DEF Sends1
<1>3. Ids' = Ids \cup {n} /\ n \notin Ids /\ n # 0 /\ n # m
  BY <1>0, <1>2 DEF Ids
<1>4. /\ \A i \in Ids : i # m => msgs'[i] = msgs[i]
      /\ Same(m) /\ msgs'[m].version = msgs[m].version
      /\ msgs'[m].phase = "waiting" /\ msgs'[m].awaits = n
      /\ msgs'[n] = Message(kind, m, header)
  BY <1>1, <1>2 DEF Sends1
<1>5. \A i \in Ids : Same(i) /\ msgs'[i].version = msgs[i].version
  BY <1>4 DEF Same
<1>6. \A i \in Ids : (IsEvent(i)' <=> IsEvent(i)) /\ (Calls(i)' <=> Calls(i))
  BY <1>5 DEF IsEvent, Calls, Same
<1>7. /\ msgs'[n].kind = kind /\ msgs'[n].parent = m /\ msgs'[n].header = header
      /\ msgs'[n].phase = "queued" /\ msgs'[n].version = header
  BY <1>4 DEF Message
<1>8. kind \in Commands => kind \notin Events
  BY SagaAssumption
<1>. QED  BY <1>1, <1>3, <1>4, <1>5, <1>6, <1>7, <1>8 DEF IsEvent

\* A step that sends links the new message.
LEMMA LinkedSent ==
    ASSUME MessagesTyped(Phases), Linked, NEW m \in Ids, SendsCommand(m) \/ SendsEvent(m)
    PROVE  Linked'
<1>0. PICK n : n = Len(msgs')
  OBVIOUS
<1>1. /\ Ids' = Ids \cup {n} /\ n \notin Ids /\ n # 0 /\ n # m
      /\ \A i \in Ids : i # m => msgs'[i] = msgs[i]
      /\ \A i \in Ids : Same(i) /\ msgs'[i].version = msgs[i].version
      /\ \A i \in Ids : (IsEvent(i)' <=> IsEvent(i)) /\ (Calls(i)' <=> Calls(i))
      /\ msgs'[m].phase = "waiting" /\ msgs'[m].awaits = n
      /\ msgs'[n].phase = "queued" /\ msgs'[n].parent = m
      /\ IF IsEvent(m)
         THEN /\ SendsCommand(m)
              /\ msgs'[n].kind = CommandOf[msgs[m].kind] /\ msgs'[n].kind \in Commands
              /\ msgs'[n].header = msgs[m].version /\ ~IsEvent(n)'
         ELSE SendsEvent(m) /\ msgs'[n].header = msgs[m].header /\ IsEvent(n)'
  BY <1>0, Sending
<1>2. ASSUME NEW i \in Ids, IsEvent(i) PROVE LinkedEvent(i)'
  <2>1. LinkedEvent(i)
    BY <1>2 DEF Linked
  <2>2. PICK p \in {0} \cup Ids : p = msgs[i].parent
    BY Kinds
  <2>3. msgs'[i].parent = p /\ msgs'[i].header = msgs[i].header
    BY <1>1, <2>2 DEF Same
  <2>4. p = 0 => msgs'[i].header = 0
    BY <2>1, <2>2, <2>3 DEF LinkedEvent
  <2>5. p # 0 => ~IsEvent(p)' /\ Calls(p)' /\ msgs'[i].header = msgs'[p].header
    <3>. SUFFICES ASSUME p # 0 PROVE ~IsEvent(p)' /\ Calls(p)' /\ msgs'[i].header = msgs'[p].header
      OBVIOUS
    <3>1. p \in Ids /\ ~IsEvent(p) /\ Calls(p) /\ msgs[i].header = msgs[p].header
      BY <2>1, <2>2 DEF LinkedEvent
    <3>. QED  BY <1>1, <2>3, <3>1 DEF Same
  <2>6. msgs'[i].phase = "waiting" =>
            \E a \in Ids' : /\ msgs'[i].awaits = a /\ a # 0
                            /\ ~IsEvent(a)' /\ msgs'[a].parent = i
                            /\ msgs'[a].header = msgs'[i].version
    <3>. SUFFICES ASSUME msgs'[i].phase = "waiting"
                  PROVE  \E a \in Ids' : /\ msgs'[i].awaits = a /\ a # 0
                                         /\ ~IsEvent(a)' /\ msgs'[a].parent = i
                                         /\ msgs'[a].header = msgs'[i].version
      OBVIOUS
    <3>1. CASE i = m
      BY <1>1, <1>2, <3>1
    <3>2. CASE i # m
      <4>1. msgs'[i] = msgs[i]
        BY <1>1, <3>2
      <4>2. PICK a \in {0} \cup Ids : a = msgs[i].awaits
        BY Kinds
      <4>3. a \in Ids /\ ~IsEvent(a) /\ msgs[a].parent = i /\ msgs[a].header = msgs[i].version
            /\ a # 0
        BY <2>1, <4>1, <4>2 DEF LinkedEvent
      <4>4. a \in Ids' /\ ~IsEvent(a)' /\ msgs'[a].parent = i
            /\ msgs'[a].header = msgs'[i].version
        BY <1>1, <4>1, <4>3 DEF Same
      <4>. QED  BY <4>1, <4>2, <4>3, <4>4
    <3>. QED  BY <3>1, <3>2
  <2>7. LinkedEvent(i)'
    <3>1. msgs'[i].phase = "waiting" =>
              /\ msgs'[i].awaits # 0
              /\ ~(msgs'[msgs'[i].awaits].kind \in Events) /\ msgs'[msgs'[i].awaits].parent = i
              /\ msgs'[msgs'[i].awaits].header = msgs'[i].version
      BY <2>6 DEF IsEvent
    <3>. QED  BY <2>3, <2>4, <2>5, <3>1 DEF LinkedEvent, IsEvent
  <2>. QED  BY <2>7
<1>3. ASSUME NEW i \in Ids, ~IsEvent(i) PROVE LinkedCommand(i)'
  <2>1. LinkedCommand(i)
    BY <1>3 DEF Linked
  <2>2. PICK p \in {0} \cup Ids : p = msgs[i].parent
    BY Kinds
  <2>3. /\ p \in Ids /\ p # 0
        /\ msgs[p].kind \in DOMAIN CommandOf
        /\ msgs[i].kind = CommandOf[msgs[p].kind]
    BY <2>1, <2>2 DEF LinkedCommand
  <2>4. /\ msgs'[i].parent = p
        /\ msgs'[p].kind \in DOMAIN CommandOf
        /\ msgs'[i].kind = CommandOf[msgs'[p].kind]
    BY <1>1, <2>2, <2>3 DEF Same
  <2>5. msgs'[i].phase \in {"waiting", "caught"} => Calls(i)'
    <3>1. CASE i = m
      BY <1>1, <1>3, <3>1 DEF SendsEvent
    <3>2. CASE i # m
      BY <1>1, <2>1, <3>2 DEF LinkedCommand
    <3>. QED  BY <3>1, <3>2
  <2>6. msgs'[i].phase = "waiting" =>
            \E a \in Ids' : msgs'[i].awaits = a /\ a # 0 /\ IsEvent(a)' /\ msgs'[a].parent = i
    <3>. SUFFICES ASSUME msgs'[i].phase = "waiting"
                  PROVE  \E a \in Ids' : /\ msgs'[i].awaits = a /\ a # 0
                                         /\ IsEvent(a)' /\ msgs'[a].parent = i
      OBVIOUS
    <3>1. CASE i = m
      BY <1>1, <1>3, <3>1
    <3>2. CASE i # m
      <4>1. msgs'[i] = msgs[i]
        BY <1>1, <3>2
      <4>2. PICK a \in {0} \cup Ids : a = msgs[i].awaits
        BY Kinds
      <4>3. a \in Ids /\ IsEvent(a) /\ msgs[a].parent = i /\ a # 0
        BY <2>1, <4>1, <4>2 DEF LinkedCommand
      <4>4. a \in Ids' /\ IsEvent(a)' /\ msgs'[a].parent = i
        BY <1>1, <4>3 DEF Same
      <4>. QED  BY <4>1, <4>2, <4>3, <4>4
    <3>. QED  BY <3>1, <3>2
  <2>7. msgs'[i].phase = "waiting" =>
            /\ msgs'[i].awaits # 0
            /\ msgs'[msgs'[i].awaits].kind \in Events /\ msgs'[msgs'[i].awaits].parent = i
    BY <2>6 DEF IsEvent
  <2>. QED  BY <2>3, <2>4, <2>5, <2>7 DEF LinkedCommand, IsEvent
<1>4. IF IsEvent(n)' THEN LinkedEvent(n)' ELSE LinkedCommand(n)'
  <2>0. m # 0
    BY Kinds
  <2>1. CASE IsEvent(m)
    <3>1. msgs[m].kind \in DOMAIN CommandOf
      BY <1>1, <2>1 DEF SendsCommand
    <3>2. ~IsEvent(n)' /\ msgs'[n].parent = m /\ msgs'[n].phase = "queued"
          /\ msgs'[m].kind = msgs[m].kind /\ msgs'[n].kind = CommandOf[msgs[m].kind]
      BY <1>1, <2>1 DEF Same
    <3>3. LinkedCommand(n)'
      BY <2>0, <3>1, <3>2 DEF LinkedCommand
    <3>. QED  BY <3>2, <3>3
  <2>2. CASE ~IsEvent(m)
    <3>1. Calls(m)' /\ ~IsEvent(m)'
      BY <1>1, <2>2 DEF SendsEvent
    <3>2. IsEvent(n)' /\ msgs'[n].parent = m /\ msgs'[n].phase = "queued"
          /\ msgs'[m].header = msgs[m].header /\ msgs'[n].header = msgs[m].header
      BY <1>1, <2>2 DEF Same
    <3>3. LinkedEvent(n)'
      BY <2>0, <3>1, <3>2 DEF LinkedEvent, IsEvent, Calls
    <3>. QED  BY <3>2, <3>3
  <2>. QED  BY <2>1, <2>2
<1>5. \A i \in Ids' : IF IsEvent(i)' THEN LinkedEvent(i)' ELSE LinkedCommand(i)'
  BY <1>1, <1>2, <1>3, <1>4
<1>. QED  BY <1>5 DEF Linked

-----------------------------------------------------------------------------
\* What the steps of Saga do to a message and the row, whichever action they are.

Fails(m) ==
    /\ Touches(m)
    /\ msgs'[m].phase \in {"ready", "caught", "failed"}
    /\ msgs'[m].phase = "caught" => Calls(m)

Finds(m) ==
    /\ IsEvent(m) /\ Accepts(msgs[m].kind, FoundState)
    /\ Touches(m)
    /\ msgs'[m].phase = "saving" /\ msgs'[m].version = FoundVersion(m)

Finishes(m) == Touches(m) /\ ~IsEvent(m) /\ ~Calls(m) /\ msgs'[m].phase = "finished"

Acknowledges(m) == Touches(m) /\ msgs[m].phase = "acking" /\ msgs'[m].phase = "done"

Commits(m) ==
    /\ IsEvent(m) /\ msgs[m].phase = "saving" /\ CanSaveNow(m)
    /\ row' = Saved(Target[msgs[m].kind])
    /\ \/ Fails(m)
       \/ /\ Touches(m)
          /\ msgs'[m].version = row'.version
          /\ \/ msgs'[m].phase = "saved"
             \/ /\ msgs'[m].phase \in {"answered", "finished"}
                /\ msgs[m].kind \notin DOMAIN CommandOf

Removes(m) ==
    /\ IsEvent(m) /\ msgs[m].phase = "answered"
    /\ row' = RemovedRow
    /\ Fails(m) \/ (Touches(m) /\ msgs'[m].phase = "finished")

Replies(m) ==
    /\ msgs[m].phase = "finished" /\ Len(msgs') = Len(msgs)
    /\ \A i \in Ids :
          /\ Same(i)
          /\ \/ i = m /\ msgs'[i].phase = "acking"
             \/ /\ i # m /\ i = msgs[m].parent
                /\ msgs[i].phase = "waiting" /\ msgs[i].awaits = m
                /\ msgs'[i].phase = AfterCommand(msgs[i].kind)
                /\ msgs'[i].version = msgs[i].version
             \/ i # m /\ msgs'[i] = msgs[i]

Requeues ==
    /\ Len(msgs') = Len(msgs)
    /\ \A i \in Ids : Same(i) /\ (msgs'[i] = msgs[i] \/ msgs'[i].phase = "queued")

\* A failed attempt of an event, or of a consumer that calls.
LEMMA FailedFails ==
    ASSUME MessagesTyped(Phases), NEW m \in Ids, msgs' = Failed(m), IsEvent(m) \/ Calls(m)
    PROVE  Fails(m)
<1>1. /\ Touches(m)
      /\ msgs'[m].phase \in {"ready", "caught", "failed"}
      /\ Fits(msgs'[m])
  BY HasFailed
<1>2. msgs'[m].phase = "caught" => ~IsEvent(m)
  BY <1>1, SagaAssumption DEF Fits, Touches, Same, IsEvent
<1>. QED  BY <1>1, <1>2 DEF Fails

\* Every step is one of these.
LEMMA Steps ==
    ASSUME Typed(Phases), Linked, Next
    PROVE  \/ \E m \in Ids :
                 /\ row' = row
                 /\ \/ Fails(m) \/ Finds(m) \/ Finishes(m) \/ Acknowledges(m) \/ Replies(m)
                    \/ SendsCommand(m) /\ msgs[m].phase = "saved"
                    \/ SendsEvent(m)
           \/ \E m \in Ids : Commits(m) \/ Removes(m)
           \/ Requeues /\ (Durable => row' = row)
<1>0. MessagesTyped(Phases) /\ row \in Rows
  BY DEF Typed
<1>1. ASSUME NEW m \in Ids, Advance(m)
      PROVE  \/ /\ row' = row
                /\ \/ Fails(m) \/ Finds(m) \/ Finishes(m) \/ Acknowledges(m) \/ Replies(m)
                   \/ SendsCommand(m) /\ msgs[m].phase = "saved"
                   \/ SendsEvent(m)
             \/ Commits(m) \/ Removes(m)
  <2>0. /\ msgs[m] \in Handlers(Phases) /\ Fits(msgs[m])
        /\ IsEvent(m) \/ msgs[m].kind \in Commands
        /\ IsEvent(m) => msgs[m].kind \notin Commands
        /\ IF IsEvent(m) THEN LinkedEvent(m) ELSE LinkedCommand(m)
    BY <1>0, Kinds DEF Linked
  <2>1. CASE Find(m)
    <3>1. IsEvent(m) /\ row' = row
      BY <2>1 DEF Find
    <3>2. CASE Accepts(msgs[m].kind, FoundState)
      <4>1. Finds(m)
        BY <1>0, <2>1, <3>1, <3>2, HasFound DEF Finds
      <4>. QED  BY <3>1, <4>1
    <3>3. CASE ~Accepts(msgs[m].kind, FoundState)
      <4>1. msgs' = Failed(m)
        BY <2>1, <3>3 DEF Find
      <4>. QED  BY <1>0, <3>1, <4>1, FailedFails
    <3>. QED  BY <3>2, <3>3
  <2>2. CASE Save(m)
    <3>1. /\ IsEvent(m) /\ msgs[m].phase = "saving" /\ CanSaveNow(m)
          /\ row' = Saved(Target[msgs[m].kind])
          /\ Touches(m)
          /\ msgs'[m].version = row'.version
          /\ msgs'[m].phase = IF msgs[m].kind \in DOMAIN CommandOf THEN "saved"
                              ELSE AfterCommand(msgs[m].kind)
      BY <1>0, <2>2, HasSaved
    <3>2. Commits(m)
      BY <3>1 DEF Commits, AfterCommand
    <3>. QED  BY <3>2
  <2>3. CASE SaveConflict(m)
    <3>1. IsEvent(m) /\ msgs' = Failed(m) /\ row' = row
      BY <2>0, <2>3 DEF SaveConflict, Is, Fits, IsEvent
    <3>. QED  BY <1>0, <3>1, FailedFails
  <2>4. CASE SendCommand(m)
    <3>1. msgs[m].kind \in DOMAIN CommandOf /\ msgs[m].phase = "saved" /\ row' = row
          /\ msgs' = Sent(m, CommandOf[msgs[m].kind], msgs[m].version)
      BY <2>0, <2>4 DEF SendCommand, Is, Fits
    <3>2. CommandOf[msgs[m].kind] \in Events \cup Commands /\ msgs[m].version \in Nat
          /\ IsEvent(m)
      BY <2>0, <3>1, SagaAssumption DEF Handlers, IsEvent
    <3>3. Sends1(m, CommandOf[msgs[m].kind], msgs[m].version)
      BY <1>0, <3>1, <3>2, HasSent
    <3>. QED  BY <3>1, <3>2, <3>3 DEF SendsCommand
  <2>5. CASE Finalize(m)
    <3>1. msgs[m].phase = "answered" /\ msgs' = Goto(m, "finished") /\ row' = RemovedRow
      BY <2>5 DEF Finalize, Is
    <3>2. IsEvent(m) /\ "finished" \in Phases
      BY <2>0, <3>1, SagaAssumption DEF Fits, IsEvent, Phases
    <3>3. Touches(m) /\ msgs'[m] = [msgs[m] EXCEPT !.phase = "finished"]
      BY <1>0, <3>1, <3>2, WentTo
    <3>4. msgs'[m].phase = "finished"
      BY <2>0, <3>3 DEF Handlers
    <3>. QED  BY <3>1, <3>2, <3>3, <3>4 DEF Removes
  <2>6. CASE HandleCommand(m)
    <3>1. msgs[m].kind \in DOMAIN Outcomes /\ ~IsEvent(m) /\ row' = row
      BY <2>0, <2>6, SagaAssumption DEF HandleCommand
    <3>2. ASSUME NEW event \in Outcomes[msgs[m].kind], msgs' = Sent(m, event, msgs[m].header)
          PROVE  SendsEvent(m)
      <4>1. event \in Events /\ msgs[m].header \in Nat /\ Calls(m)
        BY <2>0, <3>1, SagaAssumption DEF Handlers, Calls
      <4>2. Sends1(m, event, msgs[m].header)
        BY <1>0, <3>2, <4>1, HasSent
      <4>. QED  BY <3>1, <4>1, <4>2 DEF SendsEvent
    <3>3. ASSUME Outcomes[msgs[m].kind] = {}, msgs' = Goto(m, "finished")
          PROVE  Finishes(m)
      <4>0. "finished" \in Phases
        BY DEF Phases
      <4>1. Touches(m) /\ msgs'[m] = [msgs[m] EXCEPT !.phase = "finished"]
        BY <1>0, <3>3, <4>0, WentTo
      <4>2. msgs'[m].phase = "finished"
        BY <2>0, <4>1 DEF Handlers
      <4>. QED  BY <3>1, <3>3, <4>1, <4>2 DEF Finishes, Calls
    <3>. QED  BY <2>6, <3>1, <3>2, <3>3 DEF HandleCommand
  <2>7. CASE SendFallback(m)
    <3>1. msgs[m].phase = "caught" /\ row' = row
          /\ msgs' = Sent(m, Fallback[msgs[m].kind], msgs[m].header)
      BY <2>7 DEF SendFallback, Is
    <3>2. msgs[m].kind \in DOMAIN Fallback /\ msgs[m].header \in Nat
      BY <2>0, <3>1 DEF Fits, Handlers
    <3>3. Fallback[msgs[m].kind] \in Events /\ ~IsEvent(m)
      BY <2>0, <3>2, SagaAssumption
    <3>4. Calls(m)
      BY <2>0, <3>1, <3>3 DEF LinkedCommand
    <3>5. Sends1(m, Fallback[msgs[m].kind], msgs[m].header)
      BY <1>0, <3>1, <3>2, <3>3, HasSent
    <3>. QED  BY <3>1, <3>3, <3>4, <3>5 DEF SendsEvent
  <2>8. CASE Reply(m)
    <3>1. msgs[m].phase = "finished" /\ msgs' = Answered(m) /\ row' = row
      BY <2>8 DEF Reply, Is
    <3>2. Replies(m)
      BY <1>0, <3>1, HasAnswered DEF Replies
    <3>. QED  BY <3>1, <3>2
  <2>9. CASE Ack(m)
    <3>1. msgs[m].phase = "acking" /\ msgs' = Goto(m, "done") /\ row' = row
      BY <2>9 DEF Ack, Is
    <3>0. "done" \in Phases
      BY DEF Phases
    <3>2. Touches(m) /\ msgs'[m] = [msgs[m] EXCEPT !.phase = "done"]
      BY <1>0, <3>0, <3>1, WentTo
    <3>3. msgs'[m].phase = "done"
      BY <2>0, <3>2 DEF Handlers
    <3>. QED  BY <3>1, <3>2, <3>3 DEF Acknowledges
  <2>10. CASE Timeout(m)
    <3>1. msgs[m].phase = "waiting" /\ msgs' = Failed(m) /\ row' = row
      BY <2>10 DEF Timeout, Is
    <3>2. IsEvent(m) \/ Calls(m)
      BY <2>0, <3>1 DEF LinkedCommand
    <3>. QED  BY <1>0, <3>1, <3>2, FailedFails
  <2>. QED  BY <1>1, <2>1, <2>2, <2>3, <2>4, <2>5, <2>6, <2>7, <2>8, <2>9, <2>10 DEF Advance
<1>2. ASSUME NEW m \in Ids, Disturb(m)
      PROVE  (row' = row /\ Fails(m)) \/ Commits(m) \/ Removes(m)
  <2>0. /\ msgs[m] \in Handlers(Phases) /\ Fits(msgs[m])
        /\ IsEvent(m) \/ msgs[m].kind \in Commands
        /\ IF IsEvent(m) THEN LinkedEvent(m) ELSE LinkedCommand(m)
    BY <1>0, Kinds DEF Linked
  <2>1. CASE SaveAnswerLost(m)
    <3>1. msgs[m].phase = "saving" /\ CanSaveNow(m) /\ msgs' = Failed(m)
          /\ row' = Saved(Target[msgs[m].kind])
      BY <2>1 DEF SaveAnswerLost, Is, Saved
    <3>2. IsEvent(m)
      BY <2>0, <3>1 DEF Fits, IsEvent
    <3>3. Fails(m)
      BY <1>0, <3>1, <3>2, FailedFails
    <3>. QED  BY <3>1, <3>2, <3>3 DEF Commits
  <2>2. CASE FinalizeAnswerLost(m)
    <3>1. msgs[m].phase = "answered" /\ msgs' = Failed(m) /\ row' = RemovedRow
      BY <2>2 DEF FinalizeAnswerLost, Is
    <3>2. IsEvent(m)
      BY <2>0, <3>1, SagaAssumption DEF Fits, IsEvent
    <3>3. Fails(m)
      BY <1>0, <3>1, <3>2, FailedFails
    <3>. QED  BY <3>1, <3>2, <3>3 DEF Removes
  <2>3. CASE CallFails(m)
    <3>1. msgs' = Failed(m) /\ row' = row
      BY <2>3 DEF CallFails
    <3>2. IsEvent(m) \/ Calls(m)
      <4>1. CASE Is(m, "saving") \/ Is(m, "saved") \/ Is(m, "answered")
        BY <2>0, <4>1, SagaAssumption DEF Is, Fits, IsEvent
      <4>2. CASE Is(m, "caught")
        BY <2>0, <4>2 DEF Is, LinkedCommand
      <4>. QED  BY <2>3, <4>1, <4>2 DEF CallFails
    <3>. QED  BY <1>0, <3>1, <3>2, FailedFails
  <2>4. CASE TimeoutTooSoon(m)
    <3>1. msgs[m].phase = "waiting" /\ msgs' = Failed(m) /\ row' = row
      BY <2>4 DEF TimeoutTooSoon, Is
    <3>2. IsEvent(m) \/ Calls(m)
      BY <2>0, <3>1 DEF LinkedCommand
    <3>. QED  BY <1>0, <3>1, <3>2, FailedFails
  <2>. QED  BY <1>2, <2>1, <2>2, <2>3, <2>4 DEF Disturb
<1>3. ASSUME NEW process \in Processes, Crash(process)
      PROVE  Requeues /\ (Durable => row' = row)
  <2>1. Requeues
    BY <1>0, <1>3, HasCrashed DEF Requeues
  <2>2. Durable => row' = row
    BY <1>3 DEF Crash
  <2>. QED  BY <2>1, <2>2
<1>. QED  BY <1>1, <1>2, <1>3 DEF Next, Progress

\* A step that touches one handler, and does not make it wait, keeps the links.
LEMMA LinkedTouched ==
    ASSUME MessagesTyped(Phases), Linked, NEW m \in Ids, Touches(m),
           msgs'[m].phase # "waiting", msgs'[m].phase = "caught" => Calls(m)
    PROVE  Linked'
<1>1. \A i \in Ids :
          /\ Same(i)
          /\ msgs'[i].phase = "waiting" =>
                 /\ msgs[i].phase = "waiting"
                 /\ msgs'[i].awaits = msgs[i].awaits
                 /\ msgs'[i].version = msgs[i].version
          /\ msgs'[i].phase = "caught" => msgs[i].phase = "caught" \/ Calls(i)
  BY DEF Touches, Same
<1>2. Len(msgs') = Len(msgs)
  BY DEF Touches
<1>. QED  BY <1>1, <1>2, LinkedKept

LEMMA NextLinked ==
    ASSUME Typed(Phases), Linked, [Next]_vars
    PROVE  Linked'
<1>0. MessagesTyped(Phases)
  BY DEF Typed
<1>1. CASE UNCHANGED vars
  BY <1>1 DEF vars, Linked, LinkedEvent, LinkedCommand, IsEvent, Calls, Ids
<1>2. ASSUME NEW m \in Ids, Fails(m) \/ Finds(m) \/ Finishes(m) \/ Acknowledges(m)
      PROVE  Linked'
  BY <1>0, <1>2, LinkedTouched DEF Fails, Finds, Finishes, Acknowledges
<1>3. ASSUME NEW m \in Ids, SendsCommand(m) \/ SendsEvent(m)
      PROVE  Linked'
  BY <1>0, <1>3, LinkedSent
<1>4. ASSUME NEW m \in Ids, Commits(m) \/ Removes(m)
      PROVE  Linked'
  <2>1. CASE Fails(m)
    BY <1>2, <2>1
  <2>2. CASE ~Fails(m)
    <3>1. Touches(m) /\ msgs'[m].phase \in {"saved", "answered", "finished"}
      BY <1>4, <2>2 DEF Commits, Removes
    <3>. QED  BY <1>0, <3>1, LinkedTouched
  <2>. QED  BY <2>1, <2>2
<1>5. ASSUME NEW m \in Ids, Replies(m)
      PROVE  Linked'
  <2>1. Len(msgs') = Len(msgs)
    BY <1>5 DEF Replies
  <2>2. \A i \in Ids :
            /\ Same(i)
            /\ msgs'[i].phase \notin {"waiting", "caught"} \/ msgs'[i] = msgs[i]
    BY <1>5 DEF Replies, AfterCommand
  <2>. QED  BY <1>0, <2>1, <2>2, LinkedKept
<1>6. ASSUME Requeues
      PROVE  Linked'
  <2>1. Len(msgs') = Len(msgs)
    BY <1>6 DEF Requeues
  <2>2. \A i \in Ids :
            /\ Same(i)
            /\ msgs'[i].phase \notin {"waiting", "caught"} \/ msgs'[i] = msgs[i]
    BY <1>6 DEF Requeues
  <2>. QED  BY <1>0, <2>1, <2>2, LinkedKept
<1>7. CASE Next
  BY <1>2, <1>3, <1>4, <1>5, <1>6, <1>7, Steps
<1>. QED  BY <1>1, <1>7

\* The messages of the clients, as they are sent.
LEMMA Submitted ==
    ASSUME Init
    PROVE  \A m \in Ids : /\ msgs[m].kind = Starting /\ IsEvent(m)
                          /\ msgs[m].parent = 0 /\ msgs[m].header = 0
                          /\ msgs[m].phase = "queued" /\ msgs[m].version = 0
<1>1. msgs = [i \in 1 .. Submissions |-> Message(Starting, 0, 0)]
  BY DEF Init
<1>2. Submissions \in Nat
  BY SagaAssumption
<1>3. Len(msgs) = Submissions
  BY <1>1, <1>2
<1>. QED  BY <1>1, <1>3, SagaAssumption DEF Ids, Message, IsEvent

LEMMA InitLinked == Init => Linked
  BY Submitted DEF Linked, LinkedEvent

-----------------------------------------------------------------------------
\* The versions in headers and handlers are versions the row has had.

StampedRow ==
    IF row.version = 0 THEN row.content = Initially /\ ~row.archived
    ELSE row.content # Initially

StampedCommand(m) == 0 < msgs[m].header /\ msgs[m].header <= row.version

StampedEvent(m) ==
    /\ msgs[m].header <= row.version
    /\ msgs[m].header = 0 => msgs[m].kind = Starting
    /\ msgs[m].phase = "saving" => msgs[m].version <= row.version
    /\ msgs[m].phase \in {"saved", "waiting", "answered"} =>
           0 < msgs[m].version /\ msgs[m].version <= row.version

Stamped ==
    /\ StampedRow
    /\ \A m \in Ids : IF IsEvent(m) THEN StampedEvent(m) ELSE StampedCommand(m)

\* A step that sends nothing and takes no version back keeps the stamps.
LEMMA StampedKept ==
    ASSUME Typed(Phases), Stamped, Len(msgs') = Len(msgs),
           row' \in Rows, row'.version >= row.version, StampedRow',
           \A i \in Ids :
               /\ Same(i)
               /\ IsEvent(i) /\ msgs'[i].phase = "saving" => msgs'[i].version <= row'.version
               /\ IsEvent(i) /\ msgs'[i].phase \in {"saved", "waiting", "answered"} =>
                      0 < msgs'[i].version /\ msgs'[i].version <= row'.version
    PROVE  Stamped'
<1>1. Ids' = Ids
  BY DEF Ids
<1>2. row.version \in Nat /\ row'.version \in Nat
  BY DEF Typed, Rows
<1>3. ASSUME NEW i \in Ids
      PROVE  IF IsEvent(i)' THEN StampedEvent(i)' ELSE StampedCommand(i)'
  <2>1. msgs[i].header \in Nat
    BY Kinds DEF Typed, Handlers
  <2>2. (IsEvent(i)' <=> IsEvent(i)) /\ msgs'[i].header = msgs[i].header
        /\ msgs'[i].kind = msgs[i].kind
    BY DEF IsEvent, Same
  <2>3. CASE IsEvent(i)
    <3>1. StampedEvent(i)
      BY <2>3 DEF Stamped
    <3>2. msgs'[i].header <= row'.version /\ (msgs'[i].header = 0 => msgs'[i].kind = Starting)
      BY <1>2, <2>1, <2>2, <3>1 DEF StampedEvent
    <3>3. StampedEvent(i)'
      BY <2>3, <3>2 DEF StampedEvent
    <3>. QED  BY <2>2, <2>3, <3>3
  <2>4. CASE ~IsEvent(i)
    <3>1. StampedCommand(i)
      BY <2>4 DEF Stamped
    <3>2. StampedCommand(i)'
      BY <1>2, <2>1, <2>2, <3>1 DEF StampedCommand
    <3>. QED  BY <2>2, <2>4, <3>2
  <2>. QED  BY <2>3, <2>4
<1>. QED  BY <1>1, <1>3 DEF Stamped

\* So does a step that sends.
LEMMA StampedSent ==
    ASSUME Typed(Phases), Stamped, row' = row, NEW m \in Ids,
           (SendsCommand(m) /\ msgs[m].phase = "saved") \/ SendsEvent(m)
    PROVE  Stamped'
<1>0. PICK n : n = Len(msgs')
  OBVIOUS
<1>1. /\ Ids' = Ids \cup {n}
      /\ \A i \in Ids : i # m => msgs'[i] = msgs[i]
      /\ \A i \in Ids : Same(i) /\ msgs'[i].version = msgs[i].version
      /\ \A i \in Ids : IsEvent(i)' <=> IsEvent(i)
      /\ msgs'[m].phase = "waiting" /\ msgs'[n].phase = "queued"
      /\ IF IsEvent(m)
         THEN SendsCommand(m) /\ msgs'[n].header = msgs[m].version /\ ~IsEvent(n)'
         ELSE SendsEvent(m) /\ msgs'[n].header = msgs[m].header /\ IsEvent(n)'
  BY <1>0, Sending DEF Typed
<1>2. ASSUME NEW i \in Ids
      PROVE  IF IsEvent(i)' THEN StampedEvent(i)' ELSE StampedCommand(i)'
  <2>1. msgs'[i].header = msgs[i].header /\ msgs'[i].kind = msgs[i].kind
    BY <1>1 DEF Same
  <2>2. CASE ~IsEvent(i)
    BY <1>1, <2>1, <2>2 DEF Stamped, StampedCommand
  <2>3. CASE IsEvent(i) /\ i # m
    BY <1>1, <2>3 DEF Stamped, StampedEvent
  <2>4. CASE IsEvent(i) /\ i = m
    <3>1. msgs[m].phase = "saved"
      BY <2>4 DEF SendsEvent
    <3>. QED  BY <1>1, <2>1, <2>4, <3>1 DEF Stamped, StampedEvent
  <2>. QED  BY <2>2, <2>3, <2>4
<1>3. IF IsEvent(n)' THEN StampedEvent(n)' ELSE StampedCommand(n)'
  <2>1. CASE IsEvent(m)
    <3>1. msgs[m].phase = "saved"
      BY <2>1 DEF SendsEvent
    <3>2. 0 < msgs[m].version /\ msgs[m].version <= row.version
      BY <2>1, <3>1 DEF Stamped, StampedEvent
    <3>. QED  BY <1>1, <2>1, <3>2 DEF StampedCommand
  <2>2. CASE ~IsEvent(m)
    <3>1. 0 < msgs[m].header /\ msgs[m].header <= row.version
      BY <2>2 DEF Stamped, StampedCommand
    <3>. QED  BY <1>1, <2>2, <3>1 DEF StampedEvent
  <2>. QED  BY <2>1, <2>2
<1>4. StampedRow'
  BY DEF Stamped, StampedRow
<1>. QED  BY <1>1, <1>2, <1>3, <1>4 DEF Stamped

\* What a save that takes effect does to a durable row.
LEMMA Committed ==
    ASSUME Durable, Typed(Phases), Stamped, NEW m \in Ids, Commits(m)
    PROVE  /\ row.version \in Nat /\ row'.version = row.version + 1
           /\ row'.content = Target[msgs[m].kind] /\ row'.content # Initially
           /\ row'.archived = row.archived
           /\ row' \in Rows
           /\ msgs[m].version = row.version
           /\ msgs[m].kind \in Events
<1>1. /\ IsEvent(m) /\ msgs[m].phase = "saving" /\ CanSave(row, msgs[m].version)
      /\ row' = AfterSave(row, Target[msgs[m].kind])
  BY DEF Commits, CanSaveNow, Saved
<1>2. row \in Rows /\ msgs[m].version \in Nat
  BY Kinds DEF Typed, Handlers
<1>3. msgs[m].version <= row.version
  BY <1>1 DEF Stamped, StampedEvent
<1>4. msgs[m].version = row.version
  BY <1>1, <1>2, <1>3 DEF CanSave, Exists, Rows
<1>5. Target[msgs[m].kind] \in States /\ Target[msgs[m].kind] # Initially
  BY <1>1, SagaAssumption DEF IsEvent, States
<1>. QED  BY <1>1, <1>2, <1>4, <1>5 DEF AfterSave, Rows, IsEvent

\* What finalize does to a row that exists, when sagas are archived.
LEMMA Removed ==
    ASSUME Durable, Archives, Typed(Phases), Stamped, NEW m \in Ids, Removes(m)
    PROVE  /\ row.version \in Nat \ {0}
           /\ row' = [row EXCEPT !.archived = TRUE] /\ row' \in Rows
           /\ row'.version = row.version /\ row'.content = row.content /\ row'.archived
<1>1. IsEvent(m) /\ msgs[m].phase = "answered" /\ row' = RemovedRow
  BY DEF Removes
<1>2. row \in Rows /\ msgs[m].version \in Nat
  BY Kinds DEF Typed, Handlers
<1>3. 0 < msgs[m].version /\ msgs[m].version <= row.version
  BY <1>1 DEF Stamped, StampedEvent
<1>4. row.version \in Nat \ {0}
  BY <1>2, <1>3 DEF Rows
<1>5. Exists(row) = TRUE
  BY <1>4 DEF Exists
<1>6. row' = [row EXCEPT !.archived = TRUE]
  BY <1>1, <1>5 DEF RemovedRow, AfterArchive
<1>. QED  BY <1>2, <1>4, <1>6 DEF Rows

LEMMA NextStamped ==
    ASSUME Durable, Archives, Typed(Phases), Linked, Stamped, [Next]_vars
    PROVE  Stamped'
<1>0. row \in Rows /\ row.version \in Nat /\ StampedRow /\ MessagesTyped(Phases)
  BY DEF Typed, Rows, Stamped
<1>. DEFINE Fine(i) ==
         /\ IsEvent(i) /\ msgs'[i].phase = "saving" => msgs'[i].version <= row'.version
         /\ IsEvent(i) /\ msgs'[i].phase \in {"saved", "waiting", "answered"} =>
                0 < msgs'[i].version /\ msgs'[i].version <= row'.version
<1>1. CASE UNCHANGED vars
  BY <1>1 DEF vars, Stamped, StampedRow, StampedEvent, StampedCommand, IsEvent, Ids
<1>2. ASSUME NEW i \in Ids, row' \in Rows, row'.version >= row.version, msgs'[i] = msgs[i]
      PROVE  Fine(i)
  <2>1. msgs[i].version \in Nat /\ row'.version \in Nat
    BY <1>0, <1>2, Kinds DEF Handlers, Rows
  <2>. QED  BY <1>0, <1>2, <2>1 DEF Stamped, StampedEvent
<1>3. ASSUME NEW m \in Ids, Touches(m), row' \in Rows, row'.version >= row.version,
             StampedRow', Fine(m)
      PROVE  Stamped'
  <2>1. Len(msgs') = Len(msgs) /\ \A i \in Ids : Same(i) /\ (i = m \/ msgs'[i] = msgs[i])
    BY <1>3 DEF Touches, Same
  <2>2. \A i \in Ids : Fine(i)
    BY <1>2, <1>3, <2>1
  <2>. HIDE DEF Fine
  <2>3. \A i \in Ids : Same(i) /\ Fine(i)
    BY <2>1, <2>2
  <2>. QED  BY <1>3, <2>1, <2>3, StampedKept DEF Fine
<1>4. ASSUME row' = row
      PROVE  row' \in Rows /\ row'.version >= row.version /\ StampedRow'
  BY <1>0, <1>4 DEF StampedRow
<1>5. ASSUME NEW m \in Ids, row' = row, Fails(m) \/ Finishes(m) \/ Acknowledges(m)
      PROVE  Stamped'
  BY <1>3, <1>4, <1>5 DEF Fails, Finishes, Acknowledges
<1>6. ASSUME NEW m \in Ids, row' = row, Finds(m)
      PROVE  Stamped'
  <2>1. IsEvent(m) /\ Touches(m) /\ msgs'[m].phase = "saving" /\ msgs'[m].version = FoundVersion(m)
    BY <1>6 DEF Finds
  <2>2. msgs[m].header <= row.version
    BY <2>1 DEF Stamped, StampedEvent
  <2>3. FoundVersion(m) <= row.version
    BY <1>0, <2>2 DEF FoundVersion
  <2>. QED  BY <1>3, <1>4, <1>6, <2>1, <2>3
<1>7. ASSUME NEW m \in Ids, row' = row, Replies(m)
      PROVE  Stamped'
  <2>1. Len(msgs') = Len(msgs) /\ \A i \in Ids : Same(i)
    BY <1>7 DEF Replies
  <2>2. ASSUME NEW i \in Ids PROVE Fine(i)
    <3>1. CASE msgs'[i] = msgs[i]
      BY <1>2, <1>4, <1>7, <3>1
    <3>2. CASE i = m /\ msgs'[i].phase = "acking"
      BY <3>2
    <3>3. CASE /\ msgs[i].phase = "waiting" /\ msgs'[i].version = msgs[i].version
               /\ msgs'[i].phase = AfterCommand(msgs[i].kind)
      <4>1. IsEvent(i) => 0 < msgs[i].version /\ msgs[i].version <= row.version
        BY <3>3 DEF Stamped, StampedEvent
      <4>2. msgs'[i].phase # "saving"
        BY <3>3 DEF AfterCommand
      <4>. QED  BY <1>7, <3>3, <4>1, <4>2
    <3>. QED  BY <1>7, <3>1, <3>2, <3>3 DEF Replies
  <2>. HIDE DEF Fine
  <2>3. \A i \in Ids : Same(i) /\ Fine(i)
    BY <2>1, <2>2
  <2>. QED  BY <1>4, <1>7, <2>1, <2>3, StampedKept DEF Fine
<1>8. ASSUME NEW m \in Ids, row' = row,
             (SendsCommand(m) /\ msgs[m].phase = "saved") \/ SendsEvent(m)
      PROVE  Stamped'
  BY <1>8, StampedSent
<1>9. ASSUME NEW m \in Ids, Commits(m)
      PROVE  Stamped'
  <2>1. /\ row'.version = row.version + 1 /\ row' \in Rows
        /\ row'.content # Initially
    BY <1>9, Committed
  <2>2. row'.version >= row.version /\ StampedRow'
    BY <1>0, <2>1 DEF StampedRow
  <2>3. Touches(m) /\ Fine(m)
    <3>1. CASE Fails(m)
      BY <3>1 DEF Fails
    <3>2. CASE ~Fails(m)
      <4>1. Touches(m) /\ msgs'[m].version = row'.version /\ msgs'[m].phase # "saving"
        BY <1>9, <3>2 DEF Commits
      <4>. QED  BY <1>0, <2>1, <4>1
    <3>. QED  BY <3>1, <3>2
  <2>. QED  BY <1>3, <2>1, <2>2, <2>3
<1>10. ASSUME NEW m \in Ids, Removes(m)
       PROVE  Stamped'
  <2>1. /\ row' \in Rows /\ row'.version = row.version /\ row'.content = row.content
        /\ row.version # 0
    BY <1>10, Removed
  <2>2. row'.version >= row.version /\ StampedRow'
    BY <1>0, <2>1 DEF StampedRow
  <2>3. Touches(m) /\ msgs'[m].phase \in {"ready", "caught", "failed", "finished"}
    BY <1>10 DEF Removes, Fails
  <2>. QED  BY <1>3, <2>1, <2>2, <2>3
<1>11. ASSUME Requeues, row' = row
       PROVE  Stamped'
  <2>1. Len(msgs') = Len(msgs) /\ \A i \in Ids : Same(i)
    BY <1>11 DEF Requeues
  <2>2. ASSUME NEW i \in Ids PROVE Fine(i)
    <3>1. CASE msgs'[i] = msgs[i]
      BY <1>2, <1>4, <1>11, <3>1
    <3>2. CASE msgs'[i].phase = "queued"
      BY <3>2
    <3>. QED  BY <1>11, <3>1, <3>2 DEF Requeues
  <2>. HIDE DEF Fine
  <2>3. \A i \in Ids : Same(i) /\ Fine(i)
    BY <2>1, <2>2
  <2>. QED  BY <1>4, <1>11, <2>1, <2>3, StampedKept DEF Fine
<1>12. CASE Next
  BY <1>5, <1>6, <1>7, <1>8, <1>9, <1>10, <1>11, <1>12, Steps
<1>. QED  BY <1>1, <1>12

LEMMA StampedInvariant ==
    ASSUME Durable, Archives
    PROVE  Spec => [](Typed(Phases) /\ Linked /\ Stamped)
<1>1. Init => Typed(Phases) /\ Linked /\ Stamped
  <2>. SUFFICES ASSUME Init PROVE Stamped
    BY InitTyped, InitLinked
  <2>1. row = NoRow
    BY DEF Init
  <2>. QED  BY <2>1, Submitted DEF NoRow, AfterDelete, Stamped, StampedRow, StampedEvent
<1>2. Typed(Phases) /\ Linked /\ [Next]_vars => Linked'
  BY NextLinked
<1>3. Typed(Phases) /\ Linked /\ Stamped /\ [Next]_vars => Stamped'
  BY NextStamped
<1>. QED  BY <1>1, <1>2, <1>3, TypedInvariant, PTL DEF Spec

\* On a database that archives, no consumer acts on a saga that was never saved:
\* the version in the header of a command is one that the row has had.
THEOREM SavedCorrect ==
    ASSUME Durable, Archives
    PROVE  Spec => []SavedBeforeSent
<1>1. Typed(Phases) /\ Linked /\ Stamped => SavedBeforeSent
  <2>. SUFFICES ASSUME Typed(Phases), Linked, Stamped PROVE SavedBeforeSent
    OBVIOUS
  <2>1. ASSUME NEW m \in Ids, msgs[m].kind \in Commands
        PROVE  msgs[m].header <= row.version /\ msgs[m].header > 0
    <3>1. ~IsEvent(m) /\ msgs[m].header \in Nat
      BY <2>1, Kinds DEF Typed, Handlers
    <3>2. 0 < msgs[m].header /\ msgs[m].header <= row.version
      BY <3>1 DEF Stamped, StampedCommand
    <3>. QED  BY <3>1, <3>2
  <2>. QED  BY <2>1 DEF SavedBeforeSent
<1>. QED  BY <1>1, StampedInvariant, PTL

-----------------------------------------------------------------------------
\* The course of a saga through an orderly workflow.

\* The state that the saga had entered when a command was sent, or is to be.
Entered(m) == Target[IF IsEvent(m) THEN msgs[m].kind ELSE msgs[msgs[m].parent].kind]

Stamp(m) == IF IsEvent(m) THEN msgs[m].version ELSE msgs[m].header

\* The messages that speak for one save: the command sent after it, or the event
\* that is going to send it, or has none to send.
Speaks(m) ==
    \/ ~IsEvent(m)
    \/ msgs[m].phase = "saved"
    \/ msgs[m].phase = "answered" /\ msgs[m].kind \notin DOMAIN CommandOf

\* Each speaks for another state, and none for one that the saga has yet to enter.
OneVoice(rank) ==
    /\ \A m \in Ids : Speaks(m) =>
           /\ rank[Entered(m)] <= rank[row.content]
           /\ Stamp(m) = row.version => Entered(m) = row.content
           /\ Entered(m) \in FinalStates => Entered(m) = row.content
    /\ \A m, n \in Ids : Speaks(m) /\ Speaks(n) /\ m # n => Entered(m) # Entered(n)

\* A handler that can still save found what the row is; one of a final event that
\* saved has the last word.
UpToDate(m) ==
    /\ msgs[m].phase = "saving" /\ msgs[m].version = row.version =>
           IF row.version = 0 THEN msgs[m].kind = Starting
           ELSE row.content \in Previous[msgs[m].kind]
    /\ msgs[m].phase \in {"saved", "waiting", "answered"} =>
           /\ msgs[m].version = row.version => row.content = Target[msgs[m].kind]
           /\ msgs[m].kind \in FinalEvents => msgs[m].version = row.version

\* What is sent from a final state is refused there, so it is never answered.
Refused(m) ==
    row.content \in FinalStates /\ msgs[m].header = row.version =>
        /\ IsEvent(m) => msgs[m].phase \in {"queued", "ready", "failed"}
        /\ ~IsEvent(m) /\ Calls(m) => msgs[m].phase \in {"queued", "waiting", "caught", "failed"}

\* A final event is answered by a command that calls nobody.
AnsweredBy(m) ==
    msgs[m].phase = "answered" /\ msgs[m].kind \in DOMAIN CommandOf =>
        \E c \in Ids : /\ ~IsEvent(c) /\ msgs[c].parent = m
                       /\ msgs[c].header = msgs[m].version
                       /\ ~Calls(c)

\* Nothing can be sent any more from the state in which a saga was archived.
Closed ==
    row.archived =>
        /\ row.content \in FinalStates
        /\ \A m \in Ids : Speaks(m) /\ Stamp(m) = row.version =>
               ~(IF IsEvent(m) THEN msgs[m].phase = "saved" ELSE Calls(m))

Course(rank) ==
    /\ OneVoice(rank)
    /\ \A m \in Ids : Refused(m) /\ (IsEvent(m) => UpToDate(m) /\ AnsweredBy(m))
    /\ Closed

\* What the proofs use of an orderly workflow.
Ordered(rank) ==
    /\ rank \in [States -> Nat]
    /\ \A e \in Events : \A s \in States \cap Previous[e] : rank[s] < rank[Target[e]]
    /\ \A e \in Events : Previous[e] \cap FinalStates = {}

LEMMA Orders == OrderlyWorkflow => \E rank : Ordered(rank)
<1>. SUFFICES ASSUME OrderlyWorkflow PROVE \E rank : Ordered(rank)
  OBVIOUS
<1>1. PICK rank \in [States -> 0 .. Cardinality(Events)] :
          \A e \in Events : \A s \in States \cap Previous[e] : rank[s] < rank[Target[e]]
  BY DEF OrderlyWorkflow
<1>2. Cardinality(Events) \in Nat
  BY FS_CardinalityType, SagaAssumption
<1>3. 0 .. Cardinality(Events) \subseteq Nat
  BY <1>2
<1>4. rank \in [States -> Nat]
  BY <1>3
<1>5. \A e \in Events : Previous[e] \cap FinalStates = {}
  BY DEF OrderlyWorkflow
<1>. QED  BY <1>1, <1>4, <1>5 DEF Ordered

\* What holds of a message between two steps: all that Course is about.
Conditions(rank) ==
    /\ Ordered(rank)
    /\ Typed(Phases) /\ Linked /\ Stamped
    /\ Course(rank)

\* Facts about single messages that the following proofs share.
LEMMA Voices ==
    ASSUME NEW rank, Conditions(rank), NEW m \in Ids
    PROVE  /\ row \in Rows /\ row.version \in Nat /\ row.content \in States
           /\ Entered(m) \in States /\ Stamp(m) \in Nat
           /\ rank[Entered(m)] \in Nat /\ rank[row.content] \in Nat
           /\ msgs[m].header \in Nat /\ msgs[m].version \in Nat
           /\ IsEvent(m) => Target[msgs[m].kind] \in States /\ msgs[m].kind \in Events
           /\ ~IsEvent(m) => /\ msgs[m].parent \in Ids
                             /\ Entered(m) = Target[msgs[msgs[m].parent].kind]
                             /\ Stamp(m) = msgs[m].header
           /\ IsEvent(m) => Entered(m) = Target[msgs[m].kind] /\ Stamp(m) = msgs[m].version
           /\ Calls(m) => ~IsEvent(m)
           /\ Speaks(m) => 0 < Stamp(m) /\ Stamp(m) <= row.version
<1>1. MessagesTyped(Phases) /\ row \in Rows
  BY DEF Conditions, Typed
<1>2. /\ msgs[m] \in Handlers(Phases) /\ msgs[m].parent \in {0} \cup Ids
      /\ IsEvent(m) \/ msgs[m].kind \in Commands
      /\ IsEvent(m) => msgs[m].kind \notin Commands
  BY <1>1, Kinds
<1>3. /\ row.version \in Nat /\ row.content \in States
      /\ msgs[m].header \in Nat /\ msgs[m].version \in Nat
  BY <1>1, <1>2 DEF Rows, Handlers
<1>4. IsEvent(m) => /\ Target[msgs[m].kind] \in States /\ msgs[m].kind \in Events
                    /\ Entered(m) = Target[msgs[m].kind] /\ Stamp(m) = msgs[m].version
  BY DEF IsEvent, States, Entered, Stamp
<1>5. ASSUME ~IsEvent(m)
      PROVE  /\ msgs[m].parent \in Ids
             /\ Entered(m) = Target[msgs[msgs[m].parent].kind] /\ Entered(m) \in States
             /\ Stamp(m) = msgs[m].header
  <2>1. LinkedCommand(m)
    BY <1>5 DEF Conditions, Linked
  <2>2. msgs[m].parent \in Ids /\ msgs[msgs[m].parent].kind \in Events
    BY <1>2, <2>1, SagaAssumption DEF LinkedCommand
  <2>. QED  BY <1>5, <2>2 DEF Entered, Stamp, States
<1>6. Entered(m) \in States /\ Stamp(m) \in Nat
  BY <1>3, <1>4, <1>5
<1>7. rank[Entered(m)] \in Nat /\ rank[row.content] \in Nat
  BY <1>3, <1>6 DEF Conditions, Ordered
<1>8. Calls(m) => ~IsEvent(m)
  BY <1>2, SagaAssumption DEF Calls
<1>9. Speaks(m) => 0 < Stamp(m) /\ Stamp(m) <= row.version
  BY <1>3, <1>4, <1>5 DEF Speaks, Conditions, Stamped, StampedEvent, StampedCommand
<1>. QED  BY <1>1, <1>3, <1>4, <1>5, <1>6, <1>7, <1>8, <1>9

\* A change of a handler that starts no new save.
Calm(i) ==
    \/ msgs'[i] = msgs[i]
    \/ /\ msgs'[i].phase \in {"queued", "ready", "caught", "failed"}
       /\ msgs'[i].phase = "caught" => Calls(i)
    \/ /\ msgs'[i].phase \in {"finished", "acking", "done"}
       /\ ~(/\ row.content \in FinalStates /\ msgs[i].header = row.version
            /\ IsEvent(i) \/ Calls(i))
    \/ /\ IsEvent(i) /\ msgs'[i].phase = "saving"
       /\ UpToDate(i)' /\ Refused(i)'
    \/ /\ IsEvent(i) /\ msgs[i].kind \in DOMAIN CommandOf
       /\ msgs[i].phase = "waiting" /\ msgs'[i].phase = "answered"
       /\ msgs'[i].version = msgs[i].version
       /\ \E c \in Ids : /\ ~IsEvent(c) /\ msgs[c].parent = i
                         /\ msgs[c].header = msgs[i].version
                         /\ ~Calls(c)

\* A step of such changes, that leaves version and state of the row.
LEMMA CourseKept ==
    ASSUME NEW rank, Conditions(rank), Typed(Phases)', Len(msgs') = Len(msgs),
           row'.version = row.version, row'.content = row.content,
           row' = row \/ Closed',
           \A i \in Ids : Same(i) /\ Calm(i)
    PROVE  Course(rank)'
<1>0. Ids' = Ids
  BY DEF Ids
<1>1. ASSUME NEW i \in Ids
      PROVE  /\ (IsEvent(i)' <=> IsEvent(i)) /\ (Calls(i)' <=> Calls(i))
             /\ Entered(i)' = Entered(i)
             /\ msgs'[i].kind = msgs[i].kind /\ msgs'[i].header = msgs[i].header
             /\ msgs'[i].parent = msgs[i].parent
  <2>1. (IsEvent(i)' <=> IsEvent(i)) /\ (Calls(i)' <=> Calls(i))
    BY DEF IsEvent, Calls, Same
  <2>2. msgs'[i].kind = msgs[i].kind /\ msgs'[i].parent = msgs[i].parent
        /\ msgs'[i].header = msgs[i].header
    BY DEF Same
  <2>3. ~IsEvent(i) => msgs'[msgs[i].parent].kind = msgs[msgs[i].parent].kind
    BY Voices DEF Same
  <2>. QED  BY <2>1, <2>2, <2>3 DEF Entered
<1>2. ASSUME NEW i \in Ids, Speaks(i)'
      PROVE  Speaks(i) /\ Stamp(i)' = Stamp(i)
  <2>1. CASE ~IsEvent(i)
    BY <1>1, <2>1 DEF Speaks, Stamp
  <2>2. CASE IsEvent(i)
    <3>1. \/ msgs'[i].phase = "saved"
          \/ msgs'[i].phase = "answered" /\ msgs[i].kind \notin DOMAIN CommandOf
      BY <1>1, <1>2, <2>2 DEF Speaks
    <3>2. msgs'[i] = msgs[i]
      BY <3>1 DEF Calm
    <3>. QED  BY <1>1, <2>2, <3>1, <3>2 DEF Speaks, Stamp
  <2>. QED  BY <2>1, <2>2
<1>3. OneVoice(rank)'
  <2>1. ASSUME NEW i \in Ids, Speaks(i)'
        PROVE  /\ rank[Entered(i)'] <= rank[row'.content]
               /\ Stamp(i)' = row'.version => Entered(i)' = row'.content
               /\ Entered(i)' \in FinalStates => Entered(i)' = row'.content
    BY <1>1, <1>2, <2>1 DEF Conditions, Course, OneVoice
  <2>2. ASSUME NEW i \in Ids, NEW j \in Ids, Speaks(i)', Speaks(j)', i # j
        PROVE  Entered(i)' # Entered(j)'
    <3>1. Speaks(i) /\ Speaks(j)
      BY <1>2, <2>2
    <3>2. Entered(i) # Entered(j)
      BY <2>2, <3>1 DEF Conditions, Course, OneVoice
    <3>. QED  BY <1>1, <3>2
  <2>. QED  BY <1>0, <2>1, <2>2 DEF OneVoice, FinalStates
<1>4. ASSUME NEW i \in Ids PROVE Refused(i)'
  <2>1. Refused(i)
    BY DEF Conditions, Course
  <2>2. SUFFICES ASSUME row.content \in FinalStates, msgs[i].header = row.version,
                        msgs'[i].phase # "saving"
                 PROVE  /\ IsEvent(i) => msgs'[i].phase \in {"queued", "ready", "failed"}
                        /\ ~IsEvent(i) /\ Calls(i) =>
                              msgs'[i].phase \in {"queued", "waiting", "caught", "failed"}
    <3>1. CASE msgs'[i].phase = "saving"
      <4>1. Fits(msgs[i])'
        BY <1>0 DEF Typed, MessagesTyped
      <4>2. IsEvent(i)
        BY <1>1, <3>1, <4>1 DEF Fits, IsEvent
      <4>3. CASE Refused(i)'
        BY <4>3
      <4>4. CASE msgs'[i] = msgs[i]
        BY <1>1, <2>1, <4>4 DEF Refused, FinalStates
      <4>. QED  BY <3>1, <4>3, <4>4 DEF Calm
    <3>. QED  BY <1>1, <2>2, <3>1 DEF Refused, FinalStates
  <2>3. /\ IsEvent(i) => msgs[i].phase \in {"queued", "ready", "failed"}
        /\ ~IsEvent(i) /\ Calls(i) => msgs[i].phase \in {"queued", "waiting", "caught", "failed"}
    BY <2>1, <2>2 DEF Refused
  <2>4. msgs'[i].phase = "ready" => IsEvent(i)
    <3>1. Fits(msgs[i])'
      BY <1>0 DEF Typed, MessagesTyped
    <3>. QED  BY <1>1, <3>1 DEF Fits, IsEvent
  <2>5. Calls(i) => ~IsEvent(i)
    BY Voices
  <2>. QED  BY <2>2, <2>3, <2>4, <2>5 DEF Calm
<1>5. ASSUME NEW i \in Ids, IsEvent(i) PROVE UpToDate(i)' /\ AnsweredBy(i)'
  <2>1. UpToDate(i) /\ AnsweredBy(i)
    BY <1>5 DEF Conditions, Course
  <2>2. UpToDate(i)'
    <3>1. CASE msgs'[i] = msgs[i]
      BY <2>1, <3>1 DEF UpToDate
    <3>2. CASE msgs'[i].phase \in {"queued", "ready", "caught", "failed", "finished", "acking", "done"}
      BY <3>2 DEF UpToDate
    <3>3. CASE /\ msgs[i].phase = "waiting" /\ msgs'[i].phase = "answered"
               /\ msgs'[i].version = msgs[i].version
      BY <1>1, <2>1, <3>3 DEF UpToDate
    <3>. QED  BY <3>1, <3>2, <3>3 DEF Calm
  <2>3. AnsweredBy(i)'
    <3>. SUFFICES ASSUME msgs'[i].phase = "answered", msgs[i].kind \in DOMAIN CommandOf
                  PROVE  \E c \in Ids : /\ ~IsEvent(c)' /\ msgs'[c].parent = i
                                        /\ msgs'[c].header = msgs'[i].version
                                        /\ ~Calls(c)'
      BY <1>0, <1>1 DEF AnsweredBy
    <3>1. msgs'[i].version = msgs[i].version
          /\ \E c \in Ids : /\ ~IsEvent(c) /\ msgs[c].parent = i
                            /\ msgs[c].header = msgs[i].version
                            /\ ~Calls(c)
      BY <2>1 DEF Calm, AnsweredBy
    <3>. QED  BY <1>1, <3>1
  <2>. QED  BY <2>2, <2>3
<1>6. Closed'
  <2>1. CASE row' = row
    <3>1. ASSUME row.archived, NEW i \in Ids, Speaks(i)', Stamp(i)' = row'.version
          PROVE  ~(IF IsEvent(i)' THEN msgs'[i].phase = "saved" ELSE Calls(i)')
      <4>1. Speaks(i) /\ Stamp(i) = row.version
        BY <1>2, <2>1, <3>1
      <4>2. ~(IF IsEvent(i) THEN msgs[i].phase = "saved" ELSE Calls(i))
        BY <3>1, <4>1 DEF Conditions, Course, Closed
      <4>3. IsEvent(i) /\ msgs'[i].phase = "saved" => msgs'[i] = msgs[i]
        BY DEF Calm
      <4>. QED  BY <1>1, <4>2, <4>3
    <3>2. row.archived => row.content \in FinalStates
      BY DEF Conditions, Course, Closed
    <3>. QED  BY <1>0, <2>1, <3>1, <3>2 DEF Closed, FinalStates
  <2>. QED  BY <2>1
<1>7. \A i \in Ids : Refused(i)' /\ (IsEvent(i)' => UpToDate(i)' /\ AnsweredBy(i)')
  BY <1>1, <1>4, <1>5
<1>. QED  BY <1>0, <1>3, <1>6, <1>7 DEF Course

\* A step that touches one handler calmly.
LEMMA CourseTouched ==
    ASSUME NEW rank, Conditions(rank), Typed(Phases)', NEW m \in Ids, Touches(m), Calm(m),
           row'.version = row.version, row'.content = row.content,
           row' = row \/ Closed'
    PROVE  Course(rank)'
<1>1. Len(msgs') = Len(msgs)
  BY DEF Touches
<1>2. \A i \in Ids : Same(i) /\ Calm(i)
  BY DEF Touches, Same, Calm
<1>. QED  BY <1>1, <1>2, CourseKept

\* The sender no longer speaks for its save, the command does; an event that is
\* sent speaks for none yet.
LEMMA CourseSent ==
    ASSUME NEW rank, Conditions(rank), row' = row, NEW m \in Ids,
           (SendsCommand(m) /\ msgs[m].phase = "saved") \/ SendsEvent(m)
    PROVE  Course(rank)'
<1>0. PICK n : n = Len(msgs')
  OBVIOUS
<1>1. /\ Ids' = Ids \cup {n} /\ n \notin Ids /\ n # m
      /\ \A i \in Ids : i # m => msgs'[i] = msgs[i]
      /\ \A i \in Ids : Same(i) /\ msgs'[i].version = msgs[i].version
      /\ \A i \in Ids : (IsEvent(i)' <=> IsEvent(i)) /\ (Calls(i)' <=> Calls(i))
      /\ msgs'[m].phase = "waiting" /\ msgs'[n].phase = "queued" /\ msgs'[n].parent = m
      /\ IF IsEvent(m)
         THEN SendsCommand(m) /\ msgs'[n].header = msgs[m].version /\ ~IsEvent(n)'
         ELSE SendsEvent(m) /\ msgs'[n].header = msgs[m].header /\ IsEvent(n)'
  BY <1>0, Sending DEF Conditions, Typed
<1>2. IsEvent(m) => msgs[m].phase = "saved"
  BY DEF SendsEvent
<1>3. ASSUME NEW i \in Ids
      PROVE  /\ Entered(i)' = Entered(i) /\ Stamp(i)' = Stamp(i)
             /\ msgs'[i].kind = msgs[i].kind /\ msgs'[i].header = msgs[i].header
             /\ msgs'[i].parent = msgs[i].parent
             /\ Speaks(i)' => Speaks(i) /\ ~(i = m /\ IsEvent(m))
  <2>1. /\ msgs'[i].kind = msgs[i].kind /\ msgs'[i].header = msgs[i].header
        /\ msgs'[i].parent = msgs[i].parent /\ msgs'[i].version = msgs[i].version
        /\ (IsEvent(i)' <=> IsEvent(i))
    BY <1>1 DEF Same
  <2>2. ~IsEvent(i) => msgs'[msgs[i].parent].kind = msgs[msgs[i].parent].kind
    BY <1>1, Voices DEF Same
  <2>3. Entered(i)' = Entered(i) /\ Stamp(i)' = Stamp(i)
    BY <2>1, <2>2 DEF Entered, Stamp
  <2>4. Speaks(i)' => Speaks(i) /\ ~(i = m /\ IsEvent(m))
    BY <1>1, <2>1 DEF Speaks
  <2>. QED  BY <2>1, <2>3, <2>4
<1>4. ASSUME Speaks(n)'
      PROVE  /\ IsEvent(m) /\ ~IsEvent(n)' /\ Speaks(m)
             /\ Entered(n)' = Entered(m) /\ Stamp(n)' = Stamp(m)
  <2>1. ~IsEvent(n)'
    BY <1>1, <1>4 DEF Speaks
  <2>2. IsEvent(m) /\ msgs'[n].header = msgs[m].version /\ msgs[m].phase = "saved"
    BY <1>1, <1>2, <2>1
  <2>3. Stamp(n)' = Stamp(m)
    BY <2>1, <2>2 DEF Stamp
  <2>4. Entered(n)' = Entered(m)
    BY <1>1, <1>3, <2>1, <2>2 DEF Entered
  <2>. QED  BY <2>1, <2>2, <2>3, <2>4 DEF Speaks
<1>5. OneVoice(rank)'
  <2>1. ASSUME NEW i \in Ids', Speaks(i)'
        PROVE  \E o \in Ids :
                  /\ Speaks(o) /\ Entered(i)' = Entered(o) /\ Stamp(i)' = Stamp(o)
                  /\ o = (IF i = n THEN m ELSE i)
                  /\ i # n => ~(i = m /\ IsEvent(m))
                  /\ i = n => IsEvent(m)
    BY <1>1, <1>3, <1>4, <2>1
  <2>2. ASSUME NEW i \in Ids', Speaks(i)'
        PROVE  /\ rank[Entered(i)'] <= rank[row'.content]
               /\ Stamp(i)' = row'.version => Entered(i)' = row'.content
               /\ Entered(i)' \in FinalStates => Entered(i)' = row'.content
    <3>1. PICK o \in Ids : Speaks(o) /\ Entered(i)' = Entered(o) /\ Stamp(i)' = Stamp(o)
      BY <2>1, <2>2
    <3>. QED  BY <3>1 DEF Conditions, Course, OneVoice
  <2>3. ASSUME NEW i \in Ids', NEW j \in Ids', Speaks(i)', Speaks(j)', i # j
        PROVE  Entered(i)' # Entered(j)'
    <3>1. PICK o \in Ids : /\ Speaks(o) /\ Entered(i)' = Entered(o)
                           /\ o = (IF i = n THEN m ELSE i)
                           /\ i # n => ~(i = m /\ IsEvent(m))
                           /\ i = n => IsEvent(m)
      BY <2>1, <2>3
    <3>2. PICK q \in Ids : /\ Speaks(q) /\ Entered(j)' = Entered(q)
                           /\ q = (IF j = n THEN m ELSE j)
                           /\ j # n => ~(j = m /\ IsEvent(m))
                           /\ j = n => IsEvent(m)
      BY <2>1, <2>3
    <3>3. o # q
      BY <2>3, <3>1, <3>2
    <3>4. Entered(o) # Entered(q)
      BY <3>1, <3>2, <3>3 DEF Conditions, Course, OneVoice
    <3>. QED  BY <3>1, <3>2, <3>4
  <2>. QED  BY <2>2, <2>3 DEF OneVoice, FinalStates
<1>6. ASSUME NEW i \in Ids' PROVE Refused(i)'
  <2>1. CASE i = n
    BY <1>1, <2>1 DEF Refused
  <2>2. CASE i \in Ids /\ i # m
    <3>1. Refused(i) /\ msgs'[i] = msgs[i]
      BY <1>1, <2>2 DEF Conditions, Course
    <3>. QED  BY <1>1, <2>2, <3>1 DEF Refused, FinalStates
  <2>3. CASE i = m
    <3>1. Refused(m)
      BY DEF Conditions, Course
    <3>. QED  BY <1>1, <1>2, <1>3, <2>3, <3>1 DEF Refused, FinalStates
  <2>. QED  BY <1>1, <2>1, <2>2, <2>3
<1>7. ASSUME NEW i \in Ids', IsEvent(i)' PROVE UpToDate(i)' /\ AnsweredBy(i)'
  <2>1. CASE i = n
    BY <1>1, <2>1 DEF UpToDate, AnsweredBy
  <2>2. CASE i \in Ids
    <3>1. UpToDate(i) /\ AnsweredBy(i)
      BY <1>1, <1>7, <2>2 DEF Conditions, Course
    <3>2. UpToDate(i)'
      <4>1. CASE i = m
        BY <1>1, <1>2, <1>3, <1>7, <3>1, <4>1 DEF UpToDate
      <4>2. CASE i # m
        BY <1>1, <2>2, <3>1, <4>2 DEF UpToDate
      <4>. QED  BY <4>1, <4>2
    <3>3. AnsweredBy(i)'
      <4>1. CASE i = m
        BY <1>1, <4>1 DEF AnsweredBy
      <4>2. CASE i # m
        <5>. SUFFICES ASSUME msgs'[i].phase = "answered", msgs'[i].kind \in DOMAIN CommandOf
                      PROVE  \E c \in Ids' : /\ ~IsEvent(c)' /\ msgs'[c].parent = i
                                             /\ msgs'[c].header = msgs'[i].version
                                             /\ ~Calls(c)'
          BY DEF AnsweredBy
        <5>1. msgs'[i] = msgs[i]
          BY <1>1, <2>2, <4>2
        <5>2. PICK c \in Ids : /\ ~IsEvent(c) /\ msgs[c].parent = i
                               /\ msgs[c].header = msgs[i].version
                               /\ ~Calls(c)
          BY <3>1, <5>1 DEF AnsweredBy
        <5>. QED  BY <1>1, <1>3, <5>1, <5>2
      <4>. QED  BY <4>1, <4>2
    <3>. QED  BY <3>2, <3>3
  <2>. QED  BY <1>1, <2>1, <2>2
<1>8. Closed'
  <2>. SUFFICES ASSUME row.archived
                PROVE  /\ row.content \in FinalStates
                       /\ \A i \in Ids' : Speaks(i)' /\ Stamp(i)' = row.version =>
                              ~(IF IsEvent(i)' THEN msgs'[i].phase = "saved" ELSE Calls(i)')
    BY DEF Closed, FinalStates
  <2>1. row.content \in FinalStates
    BY DEF Conditions, Course, Closed
  <2>2. ASSUME NEW i \in Ids', Speaks(i)', Stamp(i)' = row.version
        PROVE  ~(IF IsEvent(i)' THEN msgs'[i].phase = "saved" ELSE Calls(i)')
    <3>1. CASE i = n
      <4>1. Speaks(m) /\ Stamp(m) = row.version /\ IsEvent(m) /\ msgs[m].phase = "saved"
        BY <1>2, <1>4, <2>2, <3>1
      <4>. QED  BY <4>1 DEF Conditions, Course, Closed
    <3>2. CASE i \in Ids
      <4>1. Speaks(i) /\ Stamp(i) = row.version
        BY <1>3, <2>2, <3>2
      <4>2. ~(IF IsEvent(i) THEN msgs[i].phase = "saved" ELSE Calls(i))
        BY <3>2, <4>1 DEF Conditions, Course, Closed
      <4>3. i # m => msgs'[i] = msgs[i]
        BY <1>1, <3>2
      <4>. QED  BY <1>1, <3>2, <4>2, <4>3
    <3>. QED  BY <1>1, <3>1, <3>2
  <2>. QED  BY <2>1, <2>2
<1>. QED  BY <1>5, <1>6, <1>7, <1>8 DEF Course

\* A save moves the saga along the workflow.
LEMMA CommitMoves ==
    ASSUME NEW rank, Conditions(rank), Durable, NEW m \in Ids, Commits(m)
    PROVE  /\ row'.version = row.version + 1 /\ row'.archived = row.archived
           /\ row'.content = Target[msgs[m].kind] /\ msgs[m].kind \in Events
           /\ IF row.version = 0 THEN msgs[m].kind = Starting
              ELSE /\ row.content \in Previous[msgs[m].kind]
                   /\ row.content \notin FinalStates
                   /\ rank[row.content] < rank[row'.content]
           /\ ~row.archived
<1>1. /\ row'.version = row.version + 1 /\ row'.archived = row.archived
      /\ row'.content = Target[msgs[m].kind] /\ msgs[m].kind \in Events
      /\ msgs[m].version = row.version
  BY Committed DEF Conditions
<1>2. IsEvent(m) /\ msgs[m].phase = "saving"
  BY DEF Commits
<1>3. UpToDate(m)
  BY <1>2 DEF Conditions, Course
<1>4. IF row.version = 0 THEN msgs[m].kind = Starting ELSE row.content \in Previous[msgs[m].kind]
  BY <1>1, <1>2, <1>3 DEF UpToDate
<1>5. row.version # 0 => row.content \notin FinalStates
  BY <1>1, <1>4 DEF Conditions, Ordered
<1>6. row.version # 0 => rank[row.content] < rank[row'.content]
  BY <1>1, <1>4, Voices DEF Conditions, Ordered
<1>7. ~row.archived
  BY <1>5 DEF Conditions, Course, Closed, Stamped, StampedRow
<1>. QED  BY <1>1, <1>4, <1>5, <1>6, <1>7

\* After it, nobody else can speak for the version it made.
LEMMA CourseCommitted ==
    ASSUME NEW rank, Conditions(rank), Typed(Phases)', Durable, NEW m \in Ids, Commits(m)
    PROVE  Course(rank)'
<1>1. /\ row'.version = row.version + 1 /\ row'.archived = row.archived
      /\ row'.content = Target[msgs[m].kind] /\ msgs[m].kind \in Events
      /\ row.version # 0 =>
            row.content \notin FinalStates /\ rank[row.content] < rank[row'.content]
      /\ ~row.archived
  BY CommitMoves
<1>2. /\ IsEvent(m) /\ Touches(m)
      /\ \/ /\ msgs'[m].phase \in {"ready", "caught", "failed"}
         \/ /\ msgs'[m].version = row'.version
            /\ \/ msgs'[m].phase = "saved"
               \/ /\ msgs'[m].phase \in {"answered", "finished"}
                  /\ msgs[m].kind \notin DOMAIN CommandOf
  BY DEF Commits, Fails
<1>3. Ids' = Ids
  BY <1>2 DEF Touches, Ids
<1>4. ASSUME NEW i \in Ids
      PROVE  /\ (IsEvent(i)' <=> IsEvent(i)) /\ (Calls(i)' <=> Calls(i))
             /\ Entered(i)' = Entered(i)
             /\ msgs'[i].kind = msgs[i].kind /\ msgs'[i].header = msgs[i].header
             /\ msgs'[i].parent = msgs[i].parent
             /\ i # m => msgs'[i] = msgs[i] /\ (Speaks(i)' <=> Speaks(i)) /\ Stamp(i)' = Stamp(i)
             /\ Same(i)
  <2>1. Same(i) /\ (i # m => msgs'[i] = msgs[i])
    BY <1>2 DEF Touches, Same
  <2>2. (IsEvent(i)' <=> IsEvent(i)) /\ (Calls(i)' <=> Calls(i))
    BY <2>1 DEF IsEvent, Calls, Same
  <2>3. ~IsEvent(i) => msgs'[msgs[i].parent].kind = msgs[msgs[i].parent].kind
    BY <1>2, Voices DEF Touches, Same
  <2>4. Entered(i)' = Entered(i)
    BY <2>1, <2>2, <2>3 DEF Entered, Same
  <2>. QED  BY <2>1, <2>2, <2>4 DEF Same, Speaks, Stamp
<1>5. row.version \in Nat /\ row'.version \in Nat
  BY <1>1, Voices
<1>6. ASSUME NEW i \in Ids, i # m, Speaks(i)
      PROVE  /\ row.version # 0 /\ Entered(i) \notin FinalStates
             /\ Stamp(i) < row'.version
             /\ rank[Entered(i)] < rank[row'.content]
  <2>1. 0 < Stamp(i) /\ Stamp(i) <= row.version /\ Stamp(i) \in Nat
    BY <1>6, Voices
  <2>2. row.version # 0
    BY <1>5, <2>1
  <2>3. rank[Entered(i)] <= rank[row.content]
        /\ (Entered(i) \in FinalStates => Entered(i) = row.content)
    BY <1>6 DEF Conditions, Course, OneVoice
  <2>4. rank[row'.content] \in Nat
    BY <1>1, Voices DEF Conditions, Ordered, States
  <2>5. rank[Entered(i)] \in Nat /\ rank[row.content] \in Nat
    BY Voices
  <2>. QED  BY <1>1, <1>5, <2>1, <2>2, <2>3, <2>4, <2>5
<1>7. Entered(m)' = row'.content /\ rank[row'.content] \in Nat
  <2>1. Entered(m) = Target[msgs[m].kind] /\ Target[msgs[m].kind] \in States
    BY <1>2, Voices
  <2>. QED  BY <1>1, <1>4, <2>1 DEF Conditions, Ordered
<1>8. OneVoice(rank)'
  <2>1. ASSUME NEW i \in Ids, Speaks(i)'
        PROVE  /\ rank[Entered(i)'] <= rank[row'.content]
               /\ Stamp(i)' = row'.version => Entered(i)' = row'.content
               /\ Entered(i)' \in FinalStates => Entered(i)' = row'.content
    <3>1. CASE i = m
      BY <1>7, <3>1
    <3>2. CASE i # m
      <4>1. Speaks(i) /\ Stamp(i)' = Stamp(i) /\ Entered(i)' = Entered(i)
        BY <1>4, <2>1, <3>2
      <4>2. /\ Entered(i) \notin FinalStates /\ Stamp(i) < row'.version
            /\ rank[Entered(i)] < rank[row'.content]
        BY <1>6, <3>2, <4>1
      <4>3. Stamp(i) \in Nat /\ rank[Entered(i)] \in Nat
        BY Voices
      <4>. QED  BY <1>5, <1>7, <4>1, <4>2, <4>3
    <3>. QED  BY <3>1, <3>2
  <2>2. ASSUME NEW i \in Ids, i # m, Speaks(i)'
        PROVE  Entered(i)' # Entered(m)'
    <3>1. Speaks(i) /\ Entered(i)' = Entered(i)
      BY <1>4, <2>2
    <3>2. rank[Entered(i)] < rank[row'.content] /\ rank[Entered(i)] \in Nat
      BY <1>6, <2>2, <3>1, Voices
    <3>. QED  BY <1>7, <3>1, <3>2
  <2>3. ASSUME NEW i \in Ids, NEW j \in Ids, Speaks(i)', Speaks(j)', i # j
        PROVE  Entered(i)' # Entered(j)'
    <3>1. CASE i = m \/ j = m
      BY <2>2, <2>3, <3>1
    <3>2. CASE i # m /\ j # m
      <4>1. Speaks(i) /\ Speaks(j)
        BY <1>4, <2>3, <3>2
      <4>2. Entered(i) # Entered(j)
        BY <2>3, <4>1 DEF Conditions, Course, OneVoice
      <4>. QED  BY <1>4, <4>2
    <3>. QED  BY <3>1, <3>2
  <2>. QED  BY <1>3, <2>1, <2>3 DEF OneVoice, FinalStates
<1>9. ASSUME NEW i \in Ids
      PROVE  msgs'[i].header # row'.version
  <2>1. msgs[i].header <= row.version /\ msgs[i].header \in Nat
    BY Voices DEF Conditions, Stamped, StampedEvent, StampedCommand
  <2>. QED  BY <1>1, <1>4, <1>5, <2>1
<1>10. ASSUME NEW i \in Ids, IsEvent(i)
       PROVE  UpToDate(i)' /\ AnsweredBy(i)'
  <2>1. CASE i = m
    BY <1>1, <1>2, <1>4, <2>1 DEF UpToDate, AnsweredBy
  <2>2. CASE i # m
    <3>1. /\ UpToDate(i) /\ AnsweredBy(i) /\ StampedEvent(i)
          /\ msgs'[i] = msgs[i] /\ msgs[i].version \in Nat
      BY <1>4, <1>10, <2>2, Voices DEF Conditions, Course, Stamped
    <3>2. UpToDate(i)'
      <4>1. msgs[i].phase \in {"saving", "saved", "waiting", "answered"} =>
                msgs[i].version # row'.version
        BY <1>1, <1>5, <3>1 DEF StampedEvent
      <4>2. ~(/\ msgs[i].phase \in {"saved", "waiting", "answered"}
              /\ msgs[i].kind \in FinalEvents)
        <5>. SUFFICES ASSUME msgs[i].phase \in {"saved", "waiting", "answered"},
                             msgs[i].kind \in FinalEvents
                      PROVE  FALSE
          OBVIOUS
        <5>1. msgs[i].version = row.version /\ row.content = Target[msgs[i].kind]
          BY <3>1 DEF UpToDate
        <5>2. row.version # 0 /\ row.content \in FinalStates
          BY <1>5, <3>1, <5>1 DEF StampedEvent, FinalStates
        <5>. QED  BY <1>1, <5>2
      <4>. QED  BY <3>1, <4>1, <4>2 DEF UpToDate
    <3>3. AnsweredBy(i)'
      <4>. SUFFICES ASSUME msgs'[i].phase = "answered", msgs'[i].kind \in DOMAIN CommandOf
                    PROVE  \E c \in Ids : /\ ~IsEvent(c)' /\ msgs'[c].parent = i
                                          /\ msgs'[c].header = msgs'[i].version
                                          /\ ~Calls(c)'
        BY <1>3 DEF AnsweredBy
      <4>1. PICK c \in Ids : /\ ~IsEvent(c) /\ msgs[c].parent = i
                             /\ msgs[c].header = msgs[i].version
                             /\ ~Calls(c)
        BY <3>1 DEF AnsweredBy
      <4>. QED  BY <1>4, <3>1, <4>1
    <3>. QED  BY <3>2, <3>3
  <2>. QED  BY <2>1, <2>2
<1>11. Closed'
  BY <1>1 DEF Closed
<1>12. \A i \in Ids : Refused(i)' /\ (IsEvent(i)' => UpToDate(i)' /\ AnsweredBy(i)')
  BY <1>4, <1>9, <1>10 DEF Refused
<1>. QED  BY <1>3, <1>8, <1>11, <1>12 DEF Course

\* A saga is archived when the command of its final event, if any, was answered by
\* a consumer that calls nobody; no other message speaks for the final state.
LEMMA CourseRemoved ==
    ASSUME NEW rank, Conditions(rank), Typed(Phases)', Durable, Archives,
           NEW m \in Ids, Removes(m)
    PROVE  Course(rank)'
<1>1. /\ row.version \in Nat \ {0}
      /\ row'.version = row.version /\ row'.content = row.content /\ row'.archived
  BY Removed DEF Conditions
<1>2. /\ IsEvent(m) /\ msgs[m].phase = "answered" /\ Touches(m)
      /\ \/ msgs'[m].phase = "finished"
         \/ /\ msgs'[m].phase \in {"ready", "caught", "failed"}
            /\ msgs'[m].phase = "caught" => Calls(m)
  BY DEF Removes, Fails
<1>3. msgs[m].kind \in FinalEvents
  BY <1>2, Kinds DEF Conditions, Typed, Fits
<1>4. UpToDate(m) /\ AnsweredBy(m) /\ Refused(m)
  BY <1>2 DEF Conditions, Course
<1>5. /\ msgs[m].version = row.version /\ row.content = Target[msgs[m].kind]
      /\ row.content \in FinalStates
  BY <1>2, <1>3, <1>4 DEF UpToDate, FinalStates
<1>6. Calm(m)
  <2>1. msgs'[m].phase = "finished" => msgs[m].header # row.version
    BY <1>2, <1>4, <1>5 DEF Refused
  <2>. QED  BY <1>2, <2>1 DEF Calm
<1>7. PICK o \in Ids :
          /\ Speaks(o) /\ Entered(o) = row.content
          /\ ~(IF IsEvent(o) THEN msgs[o].phase = "saved" ELSE Calls(o))
  <2>1. CASE msgs[m].kind \notin DOMAIN CommandOf
    <3>1. Speaks(m) /\ Entered(m) = row.content
      BY <1>2, <1>5, <2>1 DEF Speaks, Entered
    <3>. QED  BY <1>2, <3>1
  <2>2. CASE msgs[m].kind \in DOMAIN CommandOf
    <3>1. PICK c \in Ids : ~IsEvent(c) /\ msgs[c].parent = m /\ ~Calls(c)
      BY <1>2, <1>4, <2>2 DEF AnsweredBy
    <3>2. Entered(c) = row.content /\ Speaks(c)
      BY <1>5, <3>1 DEF Entered, Speaks
    <3>. QED  BY <3>1, <3>2
  <2>. QED  BY <2>1, <2>2
<1>8. ASSUME NEW i \in Ids, Speaks(i), Stamp(i) = row.version
      PROVE  i = o
  BY <1>7, <1>8 DEF Conditions, Course, OneVoice
<1>9. Closed'
  <2>0. Ids' = Ids
    BY <1>2 DEF Touches, Ids
  <2>1. ASSUME NEW i \in Ids, Speaks(i)', Stamp(i)' = row.version
        PROVE  ~(IF IsEvent(i)' THEN msgs'[i].phase = "saved" ELSE Calls(i)')
    <3>0. Same(i) /\ (i # m => msgs'[i] = msgs[i])
      BY <1>2 DEF Touches, Same
    <3>1. (IsEvent(i)' <=> IsEvent(i)) /\ (Calls(i)' <=> Calls(i))
      BY <3>0 DEF IsEvent, Calls, Same
    <3>2. CASE i = m
      BY <1>2, <3>1, <3>2
    <3>3. CASE i # m
      <4>1. Speaks(i) /\ Stamp(i) = row.version
        BY <2>1, <3>0, <3>1, <3>3 DEF Speaks, Stamp
      <4>2. i = o
        BY <1>8, <4>1
      <4>. QED  BY <1>7, <3>0, <3>1, <3>3, <4>2
    <3>. QED  BY <3>2, <3>3
  <2>. QED  BY <1>1, <1>5, <2>0, <2>1 DEF Closed, FinalStates
<1>. QED  BY <1>1, <1>2, <1>6, <1>9, CourseTouched

\* A saga found by an event that it accepts: what the handler saves next is a step
\* of the workflow, unless somebody else saves first.
LEMMA CourseFound ==
    ASSUME NEW rank, Conditions(rank), Typed(Phases)', row' = row, NEW m \in Ids, Finds(m)
    PROVE  Course(rank)'
<1>1. /\ IsEvent(m) /\ Accepts(msgs[m].kind, FoundState) /\ Touches(m)
      /\ msgs'[m].phase = "saving" /\ msgs'[m].version = FoundVersion(m)
      /\ msgs'[m].kind = msgs[m].kind /\ msgs'[m].header = msgs[m].header
  BY DEF Finds, Touches, Same
<1>2. /\ row \in Rows /\ row.version \in Nat /\ msgs[m].header \in Nat
      /\ msgs[m].kind \in Events
  BY <1>1, Voices
<1>3. StampedEvent(m) /\ LinkedEvent(m) /\ StampedRow
  BY <1>1 DEF Conditions, Stamped, Linked
<1>4. ASSUME row.archived
      PROVE  msgs[m].header # row.version
  <2>. SUFFICES ASSUME msgs[m].header = row.version PROVE FALSE
    OBVIOUS
  <2>1. row.version # 0
    BY <1>3, <1>4 DEF StampedRow
  <2>2. PICK p : p = msgs[m].parent
    OBVIOUS
  <2>3. p \in Ids /\ ~IsEvent(p) /\ Calls(p) /\ msgs[p].header = row.version
    <3>1. p \in {0} \cup Ids
      BY <2>2, Kinds DEF Conditions, Typed
    <3>. QED  BY <1>3, <2>1, <2>2, <3>1 DEF LinkedEvent
  <2>4. Speaks(p) /\ Stamp(p) = row.version
    BY <2>3 DEF Speaks, Stamp
  <2>. QED  BY <1>4, <2>3, <2>4 DEF Conditions, Course, Closed
<1>5. CASE Visible(row)
  <2>1. /\ row.version # 0 /\ ~row.archived
        /\ msgs'[m].version = row.version /\ FoundState = row.content
    BY <1>1, <1>2, <1>5 DEF Visible, Exists, FoundVersion, FoundState
  <2>2. row.content # Initially
    BY <1>3, <2>1 DEF StampedRow
  <2>3. row.content \in Previous[msgs[m].kind]
    BY <1>1, <2>1, <2>2 DEF Accepts
  <2>4. row.content \notin FinalStates
    BY <1>2, <2>3 DEF Conditions, Ordered
  <2>5. UpToDate(m)'
    BY <1>1, <2>1, <2>3 DEF UpToDate
  <2>6. Refused(m)'
    BY <2>4 DEF Refused, FinalStates
  <2>7. Calm(m)
    BY <1>1, <2>5, <2>6 DEF Calm
  <2>. QED  BY <1>1, <2>7, CourseTouched
<1>6. CASE row.version = 0
  <2>1. /\ row.content = Initially /\ msgs[m].header = 0 /\ msgs[m].kind = Starting
        /\ msgs'[m].version = 0
    BY <1>1, <1>2, <1>3, <1>6 DEF StampedRow, StampedEvent, FoundVersion, Visible, Exists
  <2>2. row.content \notin FinalStates
    BY <2>1, SagaAssumption DEF FinalStates
  <2>3. UpToDate(m)'
    BY <1>1, <1>6, <2>1 DEF UpToDate
  <2>4. Refused(m)'
    BY <2>2 DEF Refused, FinalStates
  <2>5. Calm(m)
    BY <1>1, <2>3, <2>4 DEF Calm
  <2>. QED  BY <1>1, <2>5, CourseTouched
<1>7. CASE row.version # 0 /\ ~Visible(row)
  <2>1. row.archived
    BY <1>2, <1>7 DEF Visible, Exists
  <2>2. msgs[m].header # row.version /\ msgs'[m].version = msgs[m].header
    BY <1>1, <1>4, <1>7, <2>1 DEF FoundVersion
  <2>3. UpToDate(m)' /\ Refused(m)'
    BY <1>1, <2>2 DEF UpToDate, Refused
  <2>4. Calm(m)
    BY <1>1, <2>3 DEF Calm
  <2>. QED  BY <1>1, <2>4, CourseTouched
<1>. QED  BY <1>5, <1>6, <1>7

\* A final event is answered only by a consumer that calls nobody: what others
\* call from a final state is refused, and nobody answers them.
LEMMA CourseReplied ==
    ASSUME NEW rank, Conditions(rank), Typed(Phases)', row' = row, NEW m \in Ids, Replies(m)
    PROVE  Course(rank)'
<1>1. msgs[m].phase = "finished" /\ Len(msgs') = Len(msgs)
  BY DEF Replies
<1>2. Refused(m) /\ (Calls(m) => ~IsEvent(m))
  BY Voices DEF Conditions, Course
<1>3. ASSUME row.content \in FinalStates, msgs[m].header = row.version
      PROVE  ~IsEvent(m) /\ ~Calls(m)
  BY <1>1, <1>2, <1>3 DEF Refused
<1>4. ASSUME NEW i \in Ids
      PROVE  Same(i) /\ Calm(i)
  <2>1. CASE i = m /\ msgs'[i].phase = "acking"
    BY <1>3, <1>4, <2>1 DEF Replies, Calm
  <2>2. CASE i # m /\ msgs'[i] = msgs[i]
    BY <1>4, <2>2 DEF Replies, Calm
  <2>3. CASE /\ i # m /\ i = msgs[m].parent
             /\ msgs[i].phase = "waiting" /\ msgs[i].awaits = m
             /\ msgs'[i].phase = AfterCommand(msgs[i].kind)
             /\ msgs'[i].version = msgs[i].version
    <3>1. CASE ~IsEvent(i)
      <4>1. msgs'[i].phase = "finished"
        BY <2>3, <3>1, SagaAssumption DEF AfterCommand, IsEvent
      <4>2. IsEvent(m)
        BY <2>3, <3>1 DEF Conditions, Linked, LinkedCommand
      <4>3. msgs[m].header = msgs[i].header
        <5>1. i # 0 /\ LinkedEvent(m)
          BY <4>2, Kinds DEF Conditions, Typed, Linked
        <5>. QED  BY <2>3, <5>1 DEF LinkedEvent
      <4>4. ~(row.content \in FinalStates /\ msgs[i].header = row.version)
        BY <1>3, <4>2, <4>3
      <4>5. Calm(i)
        BY <4>1, <4>4 DEF Calm
      <4>. QED  BY <1>4, <4>5 DEF Replies
    <3>2. CASE IsEvent(i)
      <4>1. Refused(i) /\ UpToDate(i) /\ LinkedEvent(i)
        BY <3>2 DEF Conditions, Course, Linked
      <4>2. ~(row.content \in FinalStates /\ msgs[i].header = row.version)
        BY <2>3, <3>2, <4>1 DEF Refused
      <4>3. msgs[i].kind \in DOMAIN CommandOf
        BY <2>3, <3>2, Kinds DEF Conditions, Typed, Fits, IsEvent
      <4>4. CASE msgs[i].kind \in FinalEvents
        <5>1. msgs'[i].phase = "answered"
          BY <2>3, <4>4 DEF AfterCommand
        <5>2. msgs[i].version = row.version /\ row.content = Target[msgs[i].kind]
              /\ row.content \in FinalStates
          BY <2>3, <4>1, <4>4 DEF UpToDate, FinalStates
        <5>3. ~IsEvent(m) /\ msgs[m].parent = i /\ msgs[m].header = msgs[i].version
          BY <2>3, <4>1 DEF LinkedEvent
        <5>4. ~Calls(m)
          BY <1>3, <5>2, <5>3
        <5>5. Calm(i)
          BY <2>3, <3>2, <4>3, <5>1, <5>3, <5>4 DEF Calm
        <5>. QED  BY <1>4, <5>5 DEF Replies
      <4>5. CASE msgs[i].kind \notin FinalEvents
        <5>1. msgs'[i].phase = "finished"
          BY <2>3, <4>5 DEF AfterCommand
        <5>2. Calm(i)
          BY <4>2, <5>1 DEF Calm
        <5>. QED  BY <1>4, <5>2 DEF Replies
      <4>. QED  BY <4>4, <4>5
    <3>. QED  BY <3>1, <3>2
  <2>. QED  BY <1>4, <2>1, <2>2, <2>3 DEF Replies
<1>. QED  BY <1>1, <1>4, CourseKept

\* Every step keeps the course.
LEMMA NextCourse ==
    ASSUME NEW rank, Conditions(rank), Durable, Archives, Typed(Phases)', [Next]_vars
    PROVE  Course(rank)'
<1>1. CASE UNCHANGED vars
  <2>1. msgs' = msgs /\ row' = row
    BY <1>1 DEF vars
  <2>2. Len(msgs') = Len(msgs) /\ \A i \in Ids : Same(i) /\ Calm(i)
    BY <2>1 DEF Same, Calm
  <2>. QED  BY <2>1, <2>2, CourseKept
<1>2. ASSUME NEW m \in Ids, row' = row, Fails(m) \/ Finishes(m) \/ Acknowledges(m)
      PROVE  Course(rank)'
  <2>1. Calm(m)
    <3>1. CASE Fails(m)
      BY <3>1 DEF Fails, Calm
    <3>2. CASE Finishes(m)
      BY <3>2 DEF Finishes, Calm
    <3>3. CASE Acknowledges(m)
      <4>1. Refused(m) /\ (Calls(m) => ~IsEvent(m))
        BY Voices DEF Conditions, Course
      <4>2. ~(/\ row.content \in FinalStates /\ msgs[m].header = row.version
              /\ IsEvent(m) \/ Calls(m))
        BY <3>3, <4>1 DEF Refused, Acknowledges
      <4>. QED  BY <3>3, <4>2 DEF Acknowledges, Calm
    <3>. QED  BY <1>2, <3>1, <3>2, <3>3
  <2>2. Touches(m)
    BY <1>2 DEF Fails, Finishes, Acknowledges
  <2>. QED  BY <1>2, <2>1, <2>2, CourseTouched
<1>3. ASSUME Requeues, row' = row
      PROVE  Course(rank)'
  <2>1. Len(msgs') = Len(msgs) /\ \A i \in Ids : Same(i) /\ Calm(i)
    BY <1>3 DEF Requeues, Calm
  <2>. QED  BY <1>3, <2>1, CourseKept
<1>4. CASE Next
  BY <1>2, <1>3, <1>4, Steps, CourseFound, CourseReplied, CourseSent, CourseCommitted,
     CourseRemoved DEF Conditions
<1>. QED  BY <1>1, <1>4

LEMMA InitCourse ==
    ASSUME NEW rank, Ordered(rank), Init
    PROVE  Course(rank)
<1>1. row = NoRow
  BY DEF Init
<1>2. row.version = 0 /\ ~row.archived /\ row.content = Initially /\ Initially \notin FinalStates
  BY <1>1, SagaAssumption DEF NoRow, AfterDelete, FinalStates
<1>. QED  BY <1>2, Submitted
          DEF Course, OneVoice, Speaks, Refused, UpToDate, AnsweredBy, Closed

LEMMA CourseInvariant ==
    ASSUME Durable, Archives, NEW rank, Ordered(rank)
    PROVE  Spec => []Conditions(rank)
<1>1. Init => Course(rank)
  BY InitCourse
<1>2. Typed(Phases) /\ Linked /\ Stamped /\ Course(rank) /\ Typed(Phases)' /\ [Next]_vars
      => Course(rank)'
  BY NextCourse DEF Conditions
<1>3. Typed(Phases) /\ Linked /\ Stamped /\ Course(rank) => Conditions(rank)
  BY DEF Conditions
<1>. QED  BY <1>1, <1>2, <1>3, StampedInvariant, PTL DEF Spec

-----------------------------------------------------------------------------
\* What an orderly workflow gives, on a database that archives.

\* Two commands of the same kind speak for the same state, so they are one.
LEMMA OneCommand ==
    ASSUME OrderlyWorkflow, NEW rank, Conditions(rank),
           NEW m \in Ids, NEW n \in Ids, msgs[m].kind \in Commands,
           msgs[n].kind = msgs[m].kind
    PROVE  m = n
<1>1. ~IsEvent(m) /\ ~IsEvent(n)
  BY SagaAssumption DEF IsEvent
<1>2. LinkedCommand(m) /\ LinkedCommand(n)
  BY <1>1 DEF Conditions, Linked
<1>3. Entered(m) = Entered(n)
  BY <1>1, <1>2 DEF LinkedCommand, Entered, OrderlyWorkflow
<1>. QED  BY <1>1, <1>3 DEF Speaks, Conditions, Course, OneVoice

\* A set without two elements.
LEMMA AtMostOne ==
    ASSUME NEW S, \A a, b \in S : a = b
    PROVE  Cardinality(S) <= 1
<1>1. CASE S = {}
  BY <1>1, FS_EmptySet
<1>2. CASE S # {}
  <2>1. PICK a : a \in S
    BY <1>2
  <2>2. S = {a}
    BY <2>1
  <2>. QED  BY <2>2, FS_Singleton
<1>. QED  BY <1>1, <1>2

\* Each command of a saga is sent at most once, whatever is delivered twice,
\* retried, concurrent, answered too late, or lost with a process.
THEOREM SentOnceCorrect ==
    ASSUME Durable, Archives, OrderlyWorkflow
    PROVE  Spec => []CommandsSentOnce
<1>1. PICK rank : Ordered(rank)
  BY Orders
<1>2. Conditions(rank) => CommandsSentOnce
  <2>. SUFFICES ASSUME Conditions(rank), NEW c \in Commands
                PROVE  Cardinality(Sends(c)) <= 1
    BY DEF CommandsSentOnce
  <2>1. \A a, b \in Sends(c) : a = b
    BY OneCommand DEF Sends
  <2>. QED  BY <2>1, AtMostOne
<1>3. Spec => []Conditions(rank)
  BY <1>1, CourseInvariant
<1>. QED  BY <1>2, <1>3, PTL

\* The commands of two ways to end are never both sent.
THEOREM OneEndingCorrect ==
    ASSUME Durable, Archives, OrderlyWorkflow
    PROVE  Spec => []OneEnding
<1>1. PICK rank : Ordered(rank)
  BY Orders
<1>2. Conditions(rank) => OneEnding
  <2>. DEFINE endings == {CommandOf[e] : e \in FinalEvents \cap DOMAIN CommandOf}
  <2>. SUFFICES ASSUME Conditions(rank)
                PROVE  Cardinality({c \in endings : Sends(c) # {}}) <= 1
    BY DEF OneEnding
  <2>1. ASSUME NEW c \in endings, Sends(c) # {}
        PROVE  \E m \in Ids : /\ msgs[m].kind = c /\ Speaks(m) /\ Entered(m) = row.content
                              /\ c \in Commands
    <3>1. PICK e \in FinalEvents \cap DOMAIN CommandOf : c = CommandOf[e]
      OBVIOUS
    <3>2. PICK m \in Ids : msgs[m].kind = c
      BY <2>1 DEF Sends
    <3>3. c \in Commands /\ ~IsEvent(m)
      BY <3>1, <3>2, SagaAssumption DEF IsEvent
    <3>4. LinkedCommand(m) /\ Speaks(m)
      BY <3>3 DEF Conditions, Linked, Speaks
    <3>5. Entered(m) = Target[e]
      BY <3>1, <3>2, <3>3, <3>4 DEF LinkedCommand, Entered, OrderlyWorkflow
    <3>6. Entered(m) \in FinalStates
      BY <3>5 DEF FinalStates
    <3>7. Entered(m) = row.content
      BY <3>4, <3>6 DEF Conditions, Course, OneVoice
    <3>. QED  BY <3>2, <3>3, <3>4, <3>7
  <2>. HIDE DEF endings
  <2>2. ASSUME NEW c \in endings, NEW d \in endings, Sends(c) # {}, Sends(d) # {}
        PROVE  c = d
    <3>1. PICK m \in Ids : msgs[m].kind = c /\ Speaks(m) /\ Entered(m) = row.content
      BY <2>1, <2>2
    <3>2. PICK n \in Ids : msgs[n].kind = d /\ Speaks(n) /\ Entered(n) = row.content
      BY <2>1, <2>2
    <3>3. m = n
      BY <3>1, <3>2 DEF Conditions, Course, OneVoice
    <3>. QED  BY <3>1, <3>2, <3>3
  <2>3. \A a, b \in {c \in endings : Sends(c) # {}} : a = b
    BY <2>2
  <2>. QED  BY <2>3, AtMostOne
<1>3. Spec => []Conditions(rank)
  BY <1>1, CourseInvariant
<1>. QED  BY <1>2, <1>3, PTL

\* The row moves only along the workflow, one version at a time.
THEOREM WorkflowCorrect ==
    ASSUME Durable, Archives, OrderlyWorkflow
    PROVE  Spec => WorkflowRespected
<1>1. PICK rank : Ordered(rank)
  BY Orders
<1>2. ASSUME Conditions(rank), [Next]_vars, row'.version > row.version
      PROVE  /\ row'.version = row.version + 1
             /\ \E e \in Events :
                   /\ row'.content = Target[e]
                   /\ IF Exists(row) THEN row.content \in Previous[e] ELSE e = Starting
  <2>0. row \in Rows /\ row.version \in Nat /\ Typed(Phases) /\ Linked
    BY <1>2 DEF Conditions, Typed, Rows
  <2>1. row' # row
    BY <1>2, <2>0
  <2>2. Next
    BY <1>2, <2>1 DEF vars
  <2>3. ASSUME NEW m \in Ids, Removes(m)
        PROVE  FALSE
    BY <1>2, <2>0, <2>3, Removed DEF Conditions
  <2>4. PICK m \in Ids : Commits(m)
    BY <2>0, <2>1, <2>2, <2>3, Steps
  <2>5. /\ row'.version = row.version + 1
        /\ row'.content = Target[msgs[m].kind] /\ msgs[m].kind \in Events
        /\ IF row.version = 0 THEN msgs[m].kind = Starting
           ELSE row.content \in Previous[msgs[m].kind]
    BY <1>2, <2>4, CommitMoves
  <2>. QED  BY <2>0, <2>5 DEF Exists
<1>3. Spec => []Conditions(rank)
  BY <1>1, CourseInvariant
<1>4. Conditions(rank) /\ [Next]_vars =>
          [row'.version > row.version =>
              /\ row'.version = row.version + 1
              /\ \E e \in Events :
                    /\ row'.content = Target[e]
                    /\ IF Exists(row) THEN row.content \in Previous[e] ELSE e = Starting]_vars
  BY <1>2
<1>. QED  BY <1>3, <1>4, PTL DEF Spec, WorkflowRespected

\* Only a saga in a final state is archived, although archive() checks nothing,
\* and an archived row stays as it is, although save() would update it.
THEOREM FrozenCorrect ==
    ASSUME Durable, Archives, OrderlyWorkflow
    PROVE  Spec => ArchivedIsFrozen
<1>1. PICK rank : Ordered(rank)
  BY Orders
<1>2. ASSUME Conditions(rank), Typed(Phases)', [Next]_vars
      PROVE  /\ row'.archived => row'.content \in FinalStates
             /\ row.archived => row' = row
  <2>0. row \in Rows /\ Typed(Phases) /\ Linked
    BY <1>2 DEF Conditions, Typed
  <2>1. Course(rank)'
    BY <1>2, NextCourse
  <2>2. row'.archived => row'.content \in FinalStates
    BY <2>1 DEF Course, Closed, FinalStates
  <2>3. CASE UNCHANGED vars
    BY <2>2, <2>3 DEF vars
  <2>4. CASE Next
    <3>1. ASSUME NEW m \in Ids, Commits(m) PROVE ~row.archived
      BY <1>2, <3>1, CommitMoves
    <3>2. ASSUME NEW m \in Ids, Removes(m), row.archived PROVE row' = row
      <4>1. row' = [row EXCEPT !.archived = TRUE]
        BY <1>2, <3>2, Removed DEF Conditions
      <4>. QED  BY <2>0, <3>2, <4>1 DEF Rows
    <3>3. row.archived => row' = row
      BY <2>0, <2>4, <3>1, <3>2, Steps
    <3>. QED  BY <2>2, <3>3
  <2>. QED  BY <1>2, <2>3, <2>4
<1>3. Spec => []Conditions(rank)
  BY <1>1, CourseInvariant
<1>4. Conditions(rank) => Typed(Phases)
  BY DEF Conditions
<1>5. Conditions(rank) /\ Typed(Phases)' /\ [Next]_vars =>
          [/\ row'.archived => row'.content \in FinalStates
           /\ row.archived => row' = row]_vars
  BY <1>2
<1>. QED  BY <1>3, <1>4, <1>5, PTL DEF Spec, ArchivedIsFrozen
=============================================================================
