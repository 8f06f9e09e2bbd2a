------------------------ MODULE CvSubmission_proofs ------------------------
(***************************************************************************)
(* What the tracking record and the threads of a proposed change may be    *)
(* trusted to say, for any number of deliveries that overlap, fail and     *)
(* stop anywhere.                                                          *)
(***************************************************************************)
EXTENDS CvSubmission, TLAPS

\* Reviewing is over before anything is submitted.
SubmitsAfterMerge ==
    /\ ~merged => /\ cv # "submitted"
                  /\ \A d \in Delivery : pc[d] = "idle" /\ outcome[d] = "none"
    /\ merged => pc[Check] = "idle"

\* Who says that the workspace is submitted is right.
SayingSo == \A d \in Delivery : outcome[d] \in {"success", "already"} => cv = "submitted"

\* Each thread that says so is right, and is resolved only by what it says.
ThreadsRight ==
    /\ \A t \in 1 .. Len(threads) : /\ threads[t].done => cv = "submitted"
                                    /\ threads[t].resolved => threads[t].done
    /\ \A d \in Delivery : pc[d] = "resolve" /\ outcome[d] # "failed" =>
          threads[thread[d]].done

\* Type correct, and in step with CloudVision.
SubmissionInv == TypeOK /\ RecordNeverAhead /\ SubmitsAfterMerge /\ SayingSo /\ ThreadsRight

USE SubmissionAssumption
DEF Actor, Record, Status, Outcome, Thread, intent, actor, vars, Goes, Says, Idle

\* A thread updated in place leaves the others, and their number, as they are.
LEMMA ThreadUpdated ==
    ASSUME NEW s \in Seq(Thread), NEW t \in 1 .. Len(s), NEW n \in Thread
    PROVE  LET s2 == [s EXCEPT ![t] = n] IN
           /\ s2 \in Seq(Thread) /\ Len(s2) = Len(s)
           /\ \A u \in 1 .. Len(s) : s2[u] = IF u = t THEN n ELSE s[u]
OBVIOUS

\* A new thread is the last, and the others are as they were.
LEMMA ThreadAdded ==
    ASSUME NEW s \in Seq(Thread), NEW n \in Thread
    PROVE  /\ Append(s, n) \in Seq(Thread) /\ Len(Append(s, n)) = Len(s) + 1
           /\ \A u \in 1 .. Len(s) : Append(s, n)[u] = s[u]
           /\ Append(s, n)[Len(s) + 1] = n
OBVIOUS

\* An actor with a thread to write to has one of the change's.
LEMMA WorksOnOne ==
    ASSUME TypeOK, NEW a \in Actor, pc[a] \in {"url", "store", "comment", "resolve"}
    PROVE  thread[a] \in 1 .. Len(threads) /\ threads[thread[a]] \in Thread
<1> HIDE DEF Thread, Record
<1>1. thread[a] \in 0 .. Len(threads) /\ thread[a] # 0 /\ threads \in Seq(Thread)
  BY DEF TypeOK
<1>2. Len(threads) \in Nat
  BY <1>1
<1>3. thread[a] \in 1 .. Len(threads)
  BY <1>1, <1>2
<1> QED BY <1>1, <1>3

\* The inductive invariant of a change's check and deliveries.
THEOREM SubmissionInvariant == Spec => []SubmissionInv
<1> USE DEF SubmissionInv, TypeOK, RecordNeverAhead, SubmitsAfterMerge, SayingSo, ThreadsRight
<1>1. Init => SubmissionInv
  <2> SUFFICES ASSUME Init PROVE SubmissionInv
    OBVIOUS
  <2>1. threads = <<>> /\ threads \in Seq(Thread) /\ Len(threads) = 0 /\ 0 \in 0 .. Len(threads)
    BY DEF Init
  <2>2. TypeOK
    <3> HIDE DEF Thread, Record
    <3> QED BY <2>1 DEF Init
  <2>3. RecordNeverAhead /\ SubmitsAfterMerge /\ SayingSo /\ ThreadsRight
    BY <2>1 DEF Init
  <2> QED BY <2>2, <2>3
<1>2. SubmissionInv /\ [Next]_vars => SubmissionInv'
  <2> SUFFICES ASSUME SubmissionInv, [Next]_vars PROVE SubmissionInv'
    OBVIOUS
  <2>1. ASSUME EnsurePending PROVE SubmissionInv'
    BY <2>1 DEF EnsurePending
  <2>2. ASSUME Build PROVE SubmissionInv'
    BY <2>2 DEF Build
  <2>3. ASSUME Track PROVE SubmissionInv'
    <3>1. StoredThread \in 0 .. Len(threads)
      BY DEF StoredThread
    <3>2. record' \in Record /\ record'.thread = StoredThread /\ record'.status = outcome[Check]
      BY <2>3, <3>1 DEF Track
    <3> USE <2>3, <3>1, <3>2 DEF Track
    <3>5. TypeOK'
      <4> HIDE DEF Thread, Record
      <4> QED BY <3>1, <3>2
    <3>6. RecordNeverAhead' /\ SubmitsAfterMerge' /\ SayingSo'
      BY <3>1, <3>2
    <3>7. ThreadsRight'
      BY <3>1, <3>2
    <3> QED BY <3>5, <3>6, <3>7
  <2>4. ASSUME StoreThread PROVE SubmissionInv'
    <3>1. record' = [record EXCEPT !.thread = thread[Check]] /\ record \in Record
      BY <2>4 DEF StoreThread
    <3>2. record' \in Record /\ record'.thread = thread[Check] /\ record'.status = record.status
      BY <2>4, <3>1
    <3> USE <2>4 DEF StoreThread, Forgotten
    <3>5. TypeOK'
      <4> HIDE DEF Thread, Record
      <4> QED BY <3>2
    <3>6. RecordNeverAhead' /\ SubmitsAfterMerge' /\ SayingSo'
      BY <3>2
    <3>7. ThreadsRight'
      BY <3>2
    <3> QED BY <3>5, <3>6, <3>7
  <2>5. ASSUME Merge PROVE SubmissionInv'
    BY <2>5 DEF Merge
  <2>6. ASSUME CalmDown PROVE SubmissionInv'
    BY <2>6 DEF CalmDown
  <2>7. ASSUME NEW d \in Delivery, Receive(d) PROVE SubmissionInv'
    <3>1. record \in Record /\ record.thread \in 0 .. Len(threads)
      BY <2>7 DEF Receive, Linked
    <3> USE <2>7 DEF Receive, Linked, SubmitReady
    <3>5. TypeOK'
      <4> HIDE DEF Thread, Record
      <4> QED BY <3>1
    <3>6. RecordNeverAhead' /\ SubmitsAfterMerge' /\ SayingSo'
      BY <3>1
    <3>7. ThreadsRight'
      BY <3>1
    <3> QED BY <3>5, <3>6, <3>7
  <2>8. ASSUME NEW d \in Delivery, Query(d) PROVE SubmissionInv'
    <3> USE <2>8 DEF Query, AlreadySubmitted
    <3>1. TypeOK'
      <4> HIDE DEF Thread, Record
      <4> QED OBVIOUS
    <3>2. RecordNeverAhead' /\ SubmitsAfterMerge' /\ SayingSo'
      OBVIOUS
    <3>3. ThreadsRight'
      OBVIOUS
    <3> QED BY <3>1, <3>2, <3>3
  <2>9. ASSUME NEW d \in Delivery, SubmitAccepted(d) PROVE SubmissionInv'
    BY <2>9 DEF SubmitAccepted
  <2>10. ASSUME NEW d \in Delivery, SubmitRejected(d) PROVE SubmissionInv'
    BY <2>10 DEF SubmitRejected
  <2>11. ASSUME NEW d \in Delivery, Unreached(d) PROVE SubmissionInv'
    BY <2>11 DEF Unreached
  <2>12. ASSUME NEW d \in Delivery, Save(d) PROVE SubmissionInv'
    <3>1. record \in Record /\ outcome[d] \in {"success", "already", "failed"}
      BY <2>12 DEF Save
    <3>2. record' \in Record /\ record'.thread = record.thread
      BY <2>12, <3>1 DEF Save, SavedStatus
    <3>3. record'.status = "submitted" => record.status = "submitted" \/ cv = "submitted"
      BY <2>12, <3>1 DEF Save, SavedStatus
    <3> USE <2>12 DEF Save
    <3>5. TypeOK'
      <4> HIDE DEF Thread, Record
      <4> QED BY <3>1, <3>2, <3>3
    <3>6. RecordNeverAhead' /\ SubmitsAfterMerge' /\ SayingSo'
      BY <3>1, <3>2, <3>3
    <3>7. ThreadsRight'
      BY <3>1, <3>2, <3>3
    <3> QED BY <3>5, <3>6, <3>7
  <2>13. ASSUME NEW d \in Delivery, Comment(d) PROVE SubmissionInv'
    <3> DEFINE t == thread[d]
               n == [threads[t] EXCEPT !.done = @ \/ outcome[d] # "failed"]
    <3>1. t \in 1 .. Len(threads) /\ threads[t] \in Thread
      <4> d \in Actor /\ pc[d] \in {"url", "store", "comment", "resolve"}
        BY <2>13 DEF Comment
      <4> QED BY WorksOnOne
    <3>2. n \in Thread /\ n.done = (threads[t].done \/ outcome[d] # "failed") /\ n.resolved = threads[t].resolved
      BY <2>13, <3>1
    <3>3. threads' = [threads EXCEPT ![t] = n]
      BY <2>13, <3>1 DEF Comment
    <3>4. /\ threads' \in Seq(Thread) /\ Len(threads') = Len(threads)
          /\ \A u \in 1 .. Len(threads) : threads'[u] = IF u = t THEN n ELSE threads[u]
      <4> HIDE DEF n, t
      <4> QED BY <3>1, <3>2, <3>3, ThreadUpdated
    <3> HIDE DEF n
    <3> USE <2>13 DEF Comment
    <3>5. TypeOK'
      <4> HIDE DEF Thread, Record
      <4> QED BY <3>1, <3>2, <3>4
    <3>6. RecordNeverAhead' /\ SubmitsAfterMerge' /\ SayingSo'
      BY <3>1, <3>2, <3>4
    <3>7. ThreadsRight'
      <4>1. \A e \in Delivery : pc[e] = "resolve" => thread[e] \in 1 .. Len(threads)
        BY WorksOnOne
      <4>2. ASSUME NEW u \in 1 .. Len(threads')
            PROVE  /\ threads'[u].done => cv' = "submitted"
                   /\ threads'[u].resolved => threads'[u].done
        <5>1. outcome[d] # "failed" => cv = "submitted"
          OBVIOUS
        <5>2. (n.done => cv = "submitted") /\ (n.resolved => n.done)
          BY <3>1, <3>2, <5>1
        <5> QED BY <3>4, <5>2
      <4>3. ASSUME NEW e \in Delivery, pc'[e] = "resolve", outcome'[e] # "failed"
            PROVE  threads'[thread'[e]].done
        BY <3>1, <3>2, <3>4, <4>1, <4>3
      <4> QED BY <4>2, <4>3
    <3> QED BY <3>5, <3>6, <3>7
  <2>14. ASSUME NEW d \in Delivery, Resolve(d) PROVE SubmissionInv'
    <3> DEFINE t == thread[d]
               n == [threads[t] EXCEPT !.resolved = outcome[d] # "failed"]
    <3>1. t \in 1 .. Len(threads) /\ threads[t] \in Thread
      <4> d \in Actor /\ pc[d] \in {"url", "store", "comment", "resolve"}
        BY <2>14 DEF Resolve, Settles, Forgotten
      <4> QED BY WorksOnOne
    <3>2. n \in Thread /\ n.done = threads[t].done /\ n.resolved = (outcome[d] # "failed")
      BY <2>14, <3>1
    <3>3. threads' = [threads EXCEPT ![t] = n]
      BY <2>14, <3>1 DEF Resolve, Settles, Forgotten
    <3>4. /\ threads' \in Seq(Thread) /\ Len(threads') = Len(threads)
          /\ \A u \in 1 .. Len(threads) : threads'[u] = IF u = t THEN n ELSE threads[u]
      <4> HIDE DEF n, t
      <4> QED BY <3>1, <3>2, <3>3, ThreadUpdated
    <3> HIDE DEF n
    <3> USE <2>14 DEF Resolve, Settles, Forgotten
    <3>5. TypeOK'
      <4> HIDE DEF Thread, Record
      <4> QED BY <3>1, <3>2, <3>4
    <3>6. RecordNeverAhead' /\ SubmitsAfterMerge' /\ SayingSo'
      BY <3>1, <3>2, <3>4
    <3>7. ThreadsRight'
      <4>1. \A e \in Delivery : pc[e] = "resolve" => thread[e] \in 1 .. Len(threads)
        BY WorksOnOne
      <4>5. outcome[d] # "failed" => threads[t].done
        OBVIOUS
      <4>2. ASSUME NEW u \in 1 .. Len(threads')
            PROVE  /\ threads'[u].done => cv' = "submitted"
                   /\ threads'[u].resolved => threads'[u].done
        <5>1. CASE u = t
          BY <3>1, <3>2, <3>4, <4>5, <5>1
        <5>2. CASE u # t
          BY <3>1, <3>4, <5>2
        <5> QED BY <5>1, <5>2
      <4>3. ASSUME NEW e \in Delivery, pc'[e] = "resolve", outcome'[e] # "failed"
            PROVE  threads'[thread'[e]].done
        BY <3>1, <3>2, <3>4, <4>1, <4>3
      <4> QED BY <4>2, <4>3
    <3> QED BY <3>5, <3>6, <3>7
  <2>15. ASSUME NEW a \in Actor, Look(a) PROVE SubmissionInv'
    <3>1. PICK t \in 0 .. Len(threads) : /\ thread' = [thread EXCEPT ![a] = t]
                                        /\ \E b \in BOOLEAN : sawUrl' = [sawUrl EXCEPT ![a] = b]
      <4>1. PICK u \in Found(a) : /\ thread' = [thread EXCEPT ![a] = u]
                                  /\ sawUrl' = [sawUrl EXCEPT ![a] = u # 0 /\ threads[u].urls > 0]
        BY <2>15 DEF Look
      <4>2. Len(threads) \in Nat /\ known[a] \in 0 .. Len(threads)
        <5> HIDE DEF Thread
        <5> QED OBVIOUS
      <4>3. u \in 0 .. Len(threads)
        BY <4>2 DEF Found
      <4>4. (u # 0 /\ threads[u].urls > 0) \in BOOLEAN
        OBVIOUS
      <4> QED BY <4>1, <4>3, <4>4
    <3> USE <2>15 DEF Look
    <3>5. TypeOK'
      <4> HIDE DEF Thread, Record
      <4> QED BY <3>1
    <3>6. RecordNeverAhead' /\ SubmitsAfterMerge' /\ SayingSo'
      BY <3>1
    <3>7. ThreadsRight'
      BY <3>1
    <3> QED BY <3>5, <3>6, <3>7
  <2>16. ASSUME NEW a \in Actor, Ensure(a) PROVE SubmissionInv'
    <3> DEFINE n == [urls |-> 0, done |-> FALSE, resolved |-> FALSE]
    <3>1. CASE thread[a] # 0
      <4> USE <2>16, <3>1 DEF Ensure
      <4>1. TypeOK' /\ RecordNeverAhead' /\ SubmitsAfterMerge' /\ SayingSo' /\ ThreadsRight'
        OBVIOUS
      <4> QED BY <4>1
    <3>2. CASE thread[a] = 0
      <4>1. threads' = Append(threads, n) /\ thread' = [thread EXCEPT ![a] = Len(threads')]
        BY <2>16, <3>2 DEF Ensure
      <4>2. n \in Thread /\ ~n.done /\ ~n.resolved
        OBVIOUS
      <4> HIDE DEF n
      <4>3. /\ threads' \in Seq(Thread) /\ Len(threads') = Len(threads) + 1
            /\ \A u \in 1 .. Len(threads) : threads'[u] = threads[u]
            /\ threads'[Len(threads) + 1] = n
        BY <4>1, <4>2, ThreadAdded
      <4> USE <2>16, <3>2 DEF Ensure
      <4>5. TypeOK'
        <5> HIDE DEF Thread, Record
        <5>1. Len(threads) \in Nat /\ Len(threads') \in 0 .. Len(threads')
          BY <4>3
        <5>2. 0 .. Len(threads) \subseteq 0 .. Len(threads') /\ Len(threads') # 0
          BY <4>3, <5>1
        <5>3. thread' \in [Actor -> 0 .. Len(threads')] /\ known' \in [Actor -> 0 .. Len(threads')]
          BY <4>1, <5>1, <5>2
        <5>4. \A b \in Actor : pc'[b] \in {"url", "store", "comment", "resolve"} => thread'[b] # 0
          BY <4>1, <5>2
        <5>5. record' # None => record'.thread <= Len(threads')
          <6>1. record # None => record.thread \in Nat
            BY DEF Record
          <6> QED BY <4>3, <5>1, <6>1
        <5> QED BY <4>3, <5>3, <5>4, <5>5
      <4>6. RecordNeverAhead' /\ SubmitsAfterMerge' /\ SayingSo'
        BY <4>1
      <4>7. ThreadsRight'
        BY <4>1, <4>2, <4>3
      <4> QED BY <4>5, <4>6, <4>7
    <3> QED BY <3>1, <3>2
  <2>17. ASSUME NEW a \in Actor, CommentUrl(a) PROVE SubmissionInv'
    <3> DEFINE t == thread[a]
               n == [threads[t] EXCEPT !.urls = IF @ = 2 THEN 2 ELSE @ + 1]
    <3>1. t \in 1 .. Len(threads) /\ threads[t] \in Thread
      <4> a \in Actor /\ pc[a] \in {"url", "store", "comment", "resolve"}
        BY <2>17 DEF CommentUrl
      <4> QED BY WorksOnOne
    <3>2. n \in Thread /\ n.done = threads[t].done /\ n.resolved = threads[t].resolved
      <4> DEFINE was == threads[t].urls
                 m == IF was = 2 THEN 2 ELSE was + 1
      <4>1. was \in 0 .. 2
        BY <3>1
      <4>2. m \in 0 .. 2
        BY <4>1
      <4>3. n = [threads[t] EXCEPT !.urls = m]
        OBVIOUS
      <4> HIDE DEF m, n
      <4> QED BY <3>1, <4>2, <4>3
    <3>3. threads' = threads \/ threads' = [threads EXCEPT ![t] = n]
      BY <2>17, <3>1 DEF CommentUrl
    <3>4. /\ threads' \in Seq(Thread) /\ Len(threads') = Len(threads)
          /\ \/ \A u \in 1 .. Len(threads) : threads'[u] = IF u = t THEN n ELSE threads[u]
             \/ threads' = threads
      <4> HIDE DEF n, t
      <4>1. CASE threads' = threads
        BY <4>1
      <4>2. CASE threads' = [threads EXCEPT ![t] = n]
        BY <3>1, <3>2, <4>2, ThreadUpdated
      <4> QED BY <3>3, <4>1, <4>2
    <3> HIDE DEF n
    <3> USE <2>17 DEF CommentUrl
    <3>5. TypeOK'
      <4> HIDE DEF Thread, Record
      <4> QED BY <3>1, <3>2, <3>4
    <3>6. RecordNeverAhead' /\ SubmitsAfterMerge' /\ SayingSo'
      BY <3>1, <3>2, <3>4
    <3>7. ThreadsRight'
      BY <3>1, <3>2, <3>4
    <3> QED BY <3>5, <3>6, <3>7
  <2>18. ASSUME NEW a \in Actor, Stops(a) PROVE SubmissionInv'
    BY <2>18 DEF Stops, Forgotten
  <2>19. CASE UNCHANGED vars
    BY <2>19
  <2> QED
    BY <2>1, <2>2, <2>3, <2>4, <2>5, <2>6, <2>7, <2>8, <2>9, <2>10, <2>11, <2>12, <2>13, <2>14, <2>15, <2>16, <2>17, <2>18, <2>19 DEF Next, Submission, Threading
<1> QED BY <1>1, <1>2, PTL DEF Spec

\* The threads of a change while nobody has been at them at once: at most one, whoever
\* is at it alone, creating it only when there is none, commenting only what is missing.
Alone ==
    ~overlapped =>
        /\ Len(threads) <= 1
        /\ \A t \in 1 .. Len(threads) : threads[t].urls <= 1
        /\ \A a, b \in Actor : AtThreads(a) /\ AtThreads(b) => a = b
        /\ \A a \in Actor : AtThreads(a) =>
              /\ thread[a] = 0 => Len(threads) = 0
              /\ thread[a] # 0 /\ ~sawUrl[a] => threads[thread[a]].urls = 0

\* A step that leaves the threads, and those at them, as they are.
LEMMA LeftAlone ==
    ASSUME TypeOK, Alone, threads' = threads, overlapped' = overlapped,
           \A b \in Actor : AtThreads(b)' =>
              AtThreads(b) /\ thread'[b] = thread[b] /\ sawUrl'[b] = sawUrl[b]
    PROVE  Alone'
<1> HIDE DEF Actor
<1> QED BY DEF Alone

\* Deliveries and checks that never overlap share one thread with one URL comment,
\* wherever they stop and however often they are repeated: _lookup_thread finds what an
\* earlier one left, by the stored id or by the label.
THEOREM OneThreadForAll == Spec => []OneThread
<1> USE DEF AtThreads
<1>1. Init => Alone
  BY DEF Init, Alone
<1>2. TypeOK /\ Alone /\ [Next]_vars => Alone'
  <2> SUFFICES ASSUME TypeOK, Alone, [Next]_vars PROVE Alone'
    OBVIOUS
  <2>0. pc \in [Actor -> {"idle", "deploy", "track", "query", "submit", "save",
                         "look", "ensure", "url", "store", "comment", "resolve"}]
    BY DEF TypeOK
  <2>00. /\ thread \in [Actor -> 0 .. Len(threads)] /\ known \in [Actor -> 0 .. Len(threads)]
         /\ sawUrl \in [Actor -> BOOLEAN] /\ Len(threads) \in Nat
    <3> HIDE DEF Thread, Record
    <3> QED BY DEF TypeOK
  <2>1. CASE EnsurePending \/ Build \/ Track \/ Merge \/ CalmDown
    BY <2>0, <2>1, LeftAlone DEF EnsurePending, Build, Track, Merge, CalmDown
  <2>2. CASE StoreThread
    BY <2>0, <2>00, <2>2, LeftAlone DEF StoreThread, Forgotten
  <2>3. ASSUME NEW d \in Delivery, Receive(d) PROVE Alone'
    BY <2>0, <2>3, LeftAlone DEF Receive
  <2>4. ASSUME NEW d \in Delivery,
               Query(d) \/ SubmitAccepted(d) \/ SubmitRejected(d) \/ Unreached(d) \/ Save(d)
        PROVE  Alone'
    BY <2>0, <2>4, LeftAlone DEF Query, SubmitAccepted, SubmitRejected, Unreached, Save
  <2>5. ASSUME NEW d \in Delivery, Comment(d) PROVE Alone'
    <3> DEFINE t == thread[d]
    <3>1. PICK x \in BOOLEAN : threads' = [threads EXCEPT ![t].done = x]
      BY <2>5 DEF Comment
    <3>2. t \in 1 .. Len(threads) /\ threads[t] \in Thread
      <4> d \in Actor /\ pc[d] \in {"url", "store", "comment", "resolve"}
        BY <2>5 DEF Comment
      <4> QED BY WorksOnOne
    <3> DEFINE n == [threads[t] EXCEPT !.done = x]
    <3>3. n \in Thread /\ n.urls = threads[t].urls /\ threads' = [threads EXCEPT ![t] = n]
      BY <3>1, <3>2
    <3> HIDE DEF n
    <3>4. /\ Len(threads') = Len(threads)
          /\ \A u \in 1 .. Len(threads) : threads'[u].urls = threads[u].urls
      <4> threads \in Seq(Thread)
        BY DEF TypeOK
      <4> HIDE DEF t, Thread
      <4> QED BY <3>2, <3>3, ThreadUpdated
    <3>5. \A b \in Actor : AtThreads(b)' =>
             AtThreads(b) /\ thread'[b] = thread[b] /\ sawUrl'[b] = sawUrl[b]
      BY <2>0, <2>00, <2>5 DEF Comment
    <3> QED BY <2>0, <2>00, <2>5, <3>4, <3>5 DEF Alone, Comment
  <2>6. ASSUME NEW d \in Delivery, Resolve(d) PROVE Alone'
    <3> DEFINE t == thread[d]
    <3>1. PICK x \in BOOLEAN : threads' = [threads EXCEPT ![t].resolved = x]
      BY <2>6 DEF Resolve, Settles, Forgotten
    <3>2. t \in 1 .. Len(threads) /\ threads[t] \in Thread
      <4> d \in Actor /\ pc[d] \in {"url", "store", "comment", "resolve"}
        BY <2>6 DEF Resolve, Settles, Forgotten
      <4> QED BY WorksOnOne
    <3> DEFINE n == [threads[t] EXCEPT !.resolved = x]
    <3>3. n \in Thread /\ n.urls = threads[t].urls /\ threads' = [threads EXCEPT ![t] = n]
      BY <3>1, <3>2
    <3> HIDE DEF n
    <3>4. /\ Len(threads') = Len(threads)
          /\ \A u \in 1 .. Len(threads) : threads'[u].urls = threads[u].urls
      <4> threads \in Seq(Thread)
        BY DEF TypeOK
      <4> HIDE DEF t, Thread
      <4> QED BY <3>2, <3>3, ThreadUpdated
    <3>5. \A b \in Actor : AtThreads(b)' =>
             AtThreads(b) /\ thread'[b] = thread[b] /\ sawUrl'[b] = sawUrl[b]
      BY <2>0, <2>00, <2>6 DEF Resolve, Settles, Forgotten
    <3> QED BY <2>0, <2>00, <2>6, <3>4, <3>5 DEF Alone, Resolve, Settles, Forgotten
  <2>7. ASSUME NEW a \in Actor, Look(a) PROVE Alone'
    <3>1. PICK t \in Found(a) : /\ thread' = [thread EXCEPT ![a] = t]
                                /\ sawUrl' = [sawUrl EXCEPT ![a] = t # 0 /\ threads[t].urls > 0]
      BY <2>7 DEF Look
    <3>2. t \in 0 .. Len(threads) /\ (t = 0 => threads = <<>>)
      BY <2>00, <3>1 DEF Found
    <3> SUFFICES ASSUME ~overlapped' PROVE Alone'
      BY DEF Alone
    <3>3. ~overlapped /\ \A b \in Actor \ {a} : ~AtThreads(b)
      BY <2>7 DEF Look
    <3>4. threads' = threads /\ pc' = [pc EXCEPT ![a] = "ensure"]
      BY <2>7 DEF Look
    <3>5. t # 0 /\ ~(threads[t].urls > 0) => threads[t].urls = 0
      <4> threads \in Seq(Thread)
        BY DEF TypeOK
      <4> t # 0 => threads[t] \in Thread
        <5> HIDE DEF Thread
        <5> QED BY <2>00, <3>2
      <4> QED OBVIOUS
    <3>6. \A b \in Actor : AtThreads(b)' => b = a
      BY <2>0, <3>3, <3>4
    <3> QED BY <2>00, <3>1, <3>2, <3>3, <3>4, <3>5, <3>6 DEF Alone
  <2>8. ASSUME NEW a \in Actor, Ensure(a) PROVE Alone'
    <3>1. /\ pc[a] = "ensure" /\ pc' = [pc EXCEPT ![a] = "url"]
          /\ sawUrl' = sawUrl /\ overlapped' = overlapped
      BY <2>8 DEF Ensure
    <3>2. \A b \in Actor : AtThreads(b)' => AtThreads(b)
      BY <2>0, <3>1
    <3>3. CASE thread[a] # 0
      BY <2>8, <3>1, <3>2, <3>3, LeftAlone DEF Ensure
    <3>4. CASE thread[a] = 0
      <4> DEFINE n == [urls |-> 0, done |-> FALSE, resolved |-> FALSE]
      <4>1. threads' = Append(threads, n) /\ thread' = [thread EXCEPT ![a] = Len(threads')]
        BY <2>8, <3>4 DEF Ensure
      <4>2. /\ Len(threads') = Len(threads) + 1
            /\ \A u \in 1 .. Len(threads) : threads'[u] = threads[u]
            /\ threads'[Len(threads) + 1].urls = 0
        <5> threads \in Seq(Thread) /\ n \in Thread /\ n.urls = 0
          BY DEF TypeOK
        <5> HIDE DEF n, Thread
        <5> QED BY <4>1, ThreadAdded
      <4> HIDE DEF n
      <4> SUFFICES ASSUME ~overlapped PROVE Alone'
        BY <3>1 DEF Alone
      <4>3. Len(threads) = 0 /\ \A b \in Actor : AtThreads(b) => b = a
        BY <3>1, <3>4 DEF Alone
      <4>4. Len(threads') = 1 /\ threads'[1].urls = 0 /\ thread'[a] = 1
        BY <2>00, <4>1, <4>2, <4>3
      <4> QED BY <3>1, <3>2, <4>3, <4>4 DEF Alone
    <3> QED BY <3>3, <3>4
  <2>9. ASSUME NEW a \in Actor, CommentUrl(a) PROVE Alone'
    <3> DEFINE t == thread[a]
    <3>1. /\ pc[a] = "url" /\ thread' = thread /\ overlapped' = overlapped
          /\ \A b \in Actor : AtThreads(b)' => AtThreads(b) /\ b # a
          /\ \A b \in Actor \ {a} : sawUrl'[b] = sawUrl[b]
      BY <2>0, <2>00, <2>9 DEF CommentUrl
    <3>2. CASE sawUrl[a]
      BY <2>9, <3>1, <3>2, LeftAlone DEF CommentUrl
    <3>3. CASE ~sawUrl[a]
      <4> SUFFICES ASSUME ~overlapped PROVE Alone'
        BY <3>1 DEF Alone
      <4>1. t \in 1 .. Len(threads) /\ threads[t] \in Thread
        BY <3>1, WorksOnOne
      <4>2. threads[t].urls = 0
        BY <2>00, <3>1, <3>3, <4>1 DEF Alone
      <4> DEFINE n == [threads[t] EXCEPT !.urls = 1]
      <4>3. n \in Thread /\ n.urls = 1 /\ threads' = [threads EXCEPT ![t] = n]
        BY <2>9, <3>3, <4>1, <4>2 DEF CommentUrl
      <4> HIDE DEF n
      <4>4. /\ Len(threads') = Len(threads)
            /\ \A u \in 1 .. Len(threads) : threads'[u] = IF u = t THEN n ELSE threads[u]
        <5> threads \in Seq(Thread)
          BY DEF TypeOK
        <5> HIDE DEF t, Thread
        <5> QED BY <4>1, <4>3, ThreadUpdated
      <4>5. \A b \in Actor : ~AtThreads(b)'
        BY <3>1 DEF Alone
      <4> QED BY <4>3, <4>4, <4>5 DEF Alone
    <3> QED BY <3>2, <3>3
  <2>10. ASSUME NEW a \in Actor, Stops(a) PROVE Alone'
    BY <2>0, <2>00, <2>10, LeftAlone DEF Stops, Forgotten
  <2>11. CASE UNCHANGED vars
    BY <2>11, LeftAlone
  <2> QED
    BY <2>1, <2>2, <2>3, <2>4, <2>5, <2>6, <2>7, <2>8, <2>9, <2>10, <2>11 DEF Next, Submission, Threading
<1>3. Alone => OneThread
  BY DEF Alone, OneThread
<1>4. SubmissionInv => TypeOK
  BY DEF SubmissionInv
<1> QED BY <1>1, <1>2, <1>3, <1>4, SubmissionInvariant, PTL DEF Spec

\* Every variable keeps its type.
THEOREM SubmissionTypeCorrect == Spec => []TypeOK
<1>1. SubmissionInv => TypeOK
  BY DEF SubmissionInv
<1> QED BY <1>1, SubmissionInvariant, PTL

\* The tracking record never says submitted of a workspace that is not, whichever of
\* _save_workspace_success, _save_workspace_failure and _already_submitted wrote last.
THEOREM RecordTrusted == Spec => []RecordNeverAhead
<1>1. SubmissionInv => RecordNeverAhead
  BY DEF SubmissionInv
<1> QED BY <1>1, SubmissionInvariant, PTL

\* A resolved thread says that the workspace was submitted, and it was: a failed
\* delivery un-resolves the thread, a delivery that stops leaves it unresolved.
THEOREM ResolvedTrusted == Spec => []ResolvedMeansSubmitted
<1>1. SubmissionInv => ResolvedMeansSubmitted
  BY DEF SubmissionInv, ThreadsRight, ResolvedMeansSubmitted
<1> QED BY <1>1, SubmissionInvariant, PTL
-----------------------------------------------------------------------------
(***************************************************************************)
(* One undisturbed delivery.                                               *)
(***************************************************************************)

\* A delivery alone on a workspace that can be submitted, or was, whatever failed
\* before it, ends with the record and a thread that say so, and none after it
\* takes that back: all of LoneRetryHeals but the fairness that it ends.
LoneRetryEndsWell == \A d \in Delivery : [](RunsAlone(d) => [](Idle(d) => []Told))

\* What the delivery has established at each of its steps.
Healing(d) ==
    /\ calm /\ ~Idle(d)
    /\ \A a \in Actor \ {d} : Idle(a)
    /\ pc[d] = "query" => cv \in {"built", "submitted"}
    /\ pc[d] = "submit" => cv = "built"
    /\ pc[d] \notin {"query", "submit"} => outcome[d] # "failed"
    /\ pc[d] \notin {"query", "submit", "save"} => record.status = "submitted"

\* Whoever comes next finds that it was submitted already.
Healed ==
    /\ calm /\ merged /\ Told
    /\ \A a, b \in Actor : a # b => Idle(a) \/ Idle(b)
    /\ \A d \in Delivery : ~Idle(d) => pc[d] \notin {"query", "submit"} /\ outcome[d] = "already"

\* As long as no delivery has a failure to say, a resolved thread stays resolved.
LEMMA ResolvedStays ==
    ASSUME SubmissionInv, Next, NEW t \in 1 .. Len(threads), threads[t].resolved,
           \A d \in Delivery : pc[d] = "resolve" => outcome[d] # "failed"
    PROVE  t \in 1 .. Len(threads') /\ threads'[t].resolved
<1>1. threads \in Seq(Thread) /\ Len(threads) \in Nat
  <2> HIDE DEF Thread, Record
  <2> QED BY DEF SubmissionInv, TypeOK
<1>2. CASE UNCHANGED threads
  BY <1>2
<1>3. ASSUME NEW d \in Delivery, Comment(d)
      PROVE  t \in 1 .. Len(threads') /\ threads'[t].resolved
  <2>1. thread[d] \in 1 .. Len(threads) /\ threads[thread[d]] \in Thread
    BY <1>3, WorksOnOne DEF Comment, SubmissionInv
  <2> QED BY <1>1, <1>3, <2>1 DEF Comment
<1>4. ASSUME NEW d \in Delivery, Resolve(d)
      PROVE  t \in 1 .. Len(threads') /\ threads'[t].resolved
  <2>1. thread[d] \in 1 .. Len(threads) /\ threads[thread[d]] \in Thread
    BY <1>4, WorksOnOne DEF Resolve, SubmissionInv
  <2> QED BY <1>1, <1>4, <2>1 DEF Resolve, Settles
<1>5. ASSUME NEW a \in Actor, CommentUrl(a)
      PROVE  t \in 1 .. Len(threads') /\ threads'[t].resolved
  <2>1. thread[a] \in 1 .. Len(threads) /\ threads[thread[a]] \in Thread
    BY <1>5, WorksOnOne DEF CommentUrl, SubmissionInv
  <2> QED BY <1>1, <1>5, <2>1 DEF CommentUrl
<1>6. ASSUME NEW a \in Actor, Ensure(a)
      PROVE  t \in 1 .. Len(threads') /\ threads'[t].resolved
  <2>1. [urls |-> 0, done |-> FALSE, resolved |-> FALSE] \in Thread
    OBVIOUS
  <2> HIDE DEF Thread
  <2> QED BY <1>1, <1>6, <2>1, ThreadAdded DEF Ensure
<1> QED
  BY <1>2, <1>3, <1>4, <1>5, <1>6
     DEF Next, Submission, Threading, EnsurePending, Build, Track, StoreThread, Merge, CalmDown,
         Receive, Query, SubmitAccepted, SubmitRejected, Unreached, Save, Look, Stops

\* While it is calm, who is alone stays alone: only a delivery under way goes on,
\* and only when none is does another begin.
LEMMA OneAtATime ==
    ASSUME SubmissionInv, calm, merged, Next, \A a, b \in Actor : a # b => Idle(a) \/ Idle(b)
    PROVE  \E d \in Delivery :
              /\ \A a \in Actor \ {d} : Idle(a) /\ pc'[a] = pc[a] /\ outcome'[a] = outcome[a]
              /\ Receive(d) \/ Submission(d) \/ Threading(d)
<1>1. Idle(Check) /\ pc \in [Actor -> {"idle", "deploy", "track", "query", "submit", "save",
                                       "look", "ensure", "url", "store", "comment", "resolve"}]
      /\ outcome \in [Actor -> Outcome]
  <2> HIDE DEF Thread, Record
  <2> QED BY DEF SubmissionInv, SubmitsAfterMerge, TypeOK
<1>2. ~EnsurePending /\ ~Build /\ ~Track /\ ~StoreThread /\ ~Merge /\ ~CalmDown /\ ~Threading(Check)
  BY <1>1 DEF EnsurePending, Build, Track, StoreThread, Merge, CalmDown, Threading, Look, Ensure,
              CommentUrl
<1>3. ~\E a \in Actor : Stops(a)
  BY DEF Stops
<1>4. PICK d \in Delivery : Receive(d) \/ Submission(d) \/ Threading(d)
  BY <1>2, <1>3 DEF Next
<1>5. CASE Receive(d)
  BY <1>1, <1>5 DEF Receive
<1>6. CASE Submission(d)
  BY <1>1, <1>6 DEF Submission, Query, SubmitAccepted, SubmitRejected, Unreached, Save, Comment,
                    Resolve, Forgotten
<1>7. CASE Threading(d)
  BY <1>1, <1>7 DEF Threading, Look, Ensure, CommentUrl
<1> QED BY <1>4, <1>5, <1>6, <1>7

\* The delivery goes on as it should, or is done.
LEMMA HealingGoesOn ==
    ASSUME SubmissionInv, NEW d \in Delivery, Healing(d), Next
    PROVE  Healing(d)' \/ Healed'
<1>1. calm /\ merged /\ record \in Record /\ outcome \in [Actor -> Outcome]
      /\ pc \in [Actor -> {"idle", "deploy", "track", "query", "submit", "save",
                           "look", "ensure", "url", "store", "comment", "resolve"}]
      /\ (pc[d] \notin {"idle", "query", "submit"} => outcome[d] \in {"success", "already", "failed"})
  <2> HIDE DEF Thread, Record
  <2> QED BY DEF Healing, SubmissionInv, TypeOK
<1>2. /\ \A a \in Actor \ {d} : Idle(a)' /\ outcome'[a] = outcome[a]
      /\ Submission(d) \/ Threading(d)
  <2>1. PICK e \in Delivery :
           /\ \A a \in Actor \ {e} : Idle(a) /\ pc'[a] = pc[a] /\ outcome'[a] = outcome[a]
           /\ Receive(e) \/ Submission(e) \/ Threading(e)
    BY <1>1, OneAtATime DEF Healing
  <2>2. e = d
    BY <2>1 DEF Healing
  <2>3. ~Receive(d)
    BY DEF Receive, Healing
  <2> QED BY <2>1, <2>2, <2>3
<1> USE DEF Healing
<1>3. CASE Query(d)
  BY <1>1, <1>2, <1>3 DEF Query, AlreadySubmitted
<1>4. CASE SubmitAccepted(d) \/ SubmitRejected(d) \/ Unreached(d)
  BY <1>1, <1>2, <1>4 DEF SubmitAccepted, SubmitRejected, Unreached
<1>5. CASE Save(d)
  BY <1>1, <1>2, <1>5 DEF Save, SavedStatus
<1>6. CASE Comment(d)
  BY <1>1, <1>2, <1>6 DEF Comment
<1>7. CASE Threading(d)
  BY <1>1, <1>2, <1>7 DEF Threading, Look, Ensure, CommentUrl
<1>8. CASE Resolve(d)
  <2>1. thread[d] \in 1 .. Len(threads) /\ threads[thread[d]] \in Thread
    BY <1>8, WorksOnOne DEF Resolve, SubmissionInv
  <2>2. threads \in Seq(Thread) /\ Len(threads) \in Nat
    <3> HIDE DEF Thread, Record
    <3> QED BY DEF SubmissionInv, TypeOK
  <2>3. thread[d] \in 1 .. Len(threads') /\ threads'[thread[d]].resolved
    <3> DEFINE n == [threads[thread[d]] EXCEPT !.resolved = TRUE]
    <3>1. n \in Thread /\ n.resolved
      BY <2>1
    <3>2. threads' = [threads EXCEPT ![thread[d]] = n]
      BY <1>1, <1>8, <2>1, <2>2 DEF Resolve, Settles
    <3> HIDE DEF n, Thread
    <3> QED BY <2>1, <2>2, <3>1, <3>2, ThreadUpdated
  <2>4. record' = record /\ record # None /\ record.status = "submitted"
    BY <1>1, <1>8 DEF Resolve
  <2>5. Told'
    BY <2>3, <2>4 DEF Told
  <2>6. \A a \in Actor : Idle(a)'
    BY <1>1, <1>2, <1>8 DEF Resolve
  <2> QED BY <1>1, <1>8, <2>5, <2>6 DEF Resolve, Healed
<1> QED BY <1>2, <1>3, <1>4, <1>5, <1>6, <1>7, <1>8 DEF Submission

\* Nobody takes back what was told.
LEMMA HealedStays ==
    ASSUME SubmissionInv, Healed, Next
    PROVE  Healed'
<1>1. calm /\ merged /\ record \in Record /\ outcome \in [Actor -> Outcome]
      /\ pc \in [Actor -> {"idle", "deploy", "track", "query", "submit", "save",
                           "look", "ensure", "url", "store", "comment", "resolve"}]
  <2> HIDE DEF Thread, Record
  <2> QED BY DEF Healed, Told, SubmissionInv, TypeOK
<1>2. PICK d \in Delivery :
         /\ \A a \in Actor \ {d} : Idle(a) /\ pc'[a] = pc[a] /\ outcome'[a] = outcome[a]
         /\ Receive(d) \/ Submission(d) \/ Threading(d)
  BY <1>1, OneAtATime DEF Healed
<1> USE DEF Healed
<1>3. \E t \in 1 .. Len(threads') : threads'[t].resolved
  <2>1. PICK t \in 1 .. Len(threads) : threads[t].resolved
    BY DEF Told
  <2>2. t \in 1 .. Len(threads') /\ threads'[t].resolved
    BY <2>1, ResolvedStays
  <2> QED BY <2>2
<1>4. ASSUME record' # None, record'.status = "submitted", calm' = calm, merged' = merged,
             ~Idle(d)' => pc'[d] \notin {"query", "submit"} /\ outcome'[d] = "already"
      PROVE  Healed'
  BY <1>1, <1>2, <1>3, <1>4 DEF Told
<1>5. CASE Receive(d)
  BY <1>1, <1>4, <1>5 DEF Receive, SubmitReady, Told
<1>6. CASE Submission(d)
  <2>1. CASE Save(d)
    <3>1. record # None /\ record.status = "submitted" /\ outcome[d] = "already"
      BY <2>1 DEF Save, Told
    <3>2. record' = [record EXCEPT !.status = "submitted"]
      BY <1>1, <2>1, <3>1 DEF Save, SavedStatus
    <3>3. record' = record
      BY <1>1, <3>1, <3>2
    <3> QED BY <1>1, <1>4, <2>1, <3>1, <3>3 DEF Save
  <2>2. CASE Query(d) \/ SubmitAccepted(d) \/ SubmitRejected(d) \/ Unreached(d)
    BY <1>1, <2>2 DEF Query, SubmitAccepted, SubmitRejected, Unreached
  <2>3. CASE Comment(d)
    BY <1>1, <1>4, <2>3 DEF Comment, Told
  <2>4. CASE Resolve(d)
    BY <1>1, <1>4, <2>4 DEF Resolve, Forgotten, Told
  <2> QED BY <1>6, <2>1, <2>2, <2>3, <2>4 DEF Submission
<1>7. CASE Threading(d)
  BY <1>1, <1>4, <1>7 DEF Threading, Look, Ensure, CommentUrl, Told
<1> QED BY <1>2, <1>5, <1>6, <1>7

\* A delivery that nothing disturbs heals whatever the ones before it left.
THEOREM LoneRetryIsRight == Spec => LoneRetryEndsWell
<1> SUFFICES ASSUME NEW d \in Delivery
             PROVE  Spec => [](RunsAlone(d) => [](Idle(d) => []Told))
  BY DEF LoneRetryEndsWell
<1>1. RunsAlone(d) => Healing(d)
  BY DEF RunsAlone, Healing
<1>2. SubmissionInv /\ Healing(d) /\ [Next]_vars => Healing(d)' \/ Healed'
  <2> SUFFICES ASSUME SubmissionInv, Healing(d), [Next]_vars
               PROVE  Healing(d)' \/ Healed'
    OBVIOUS
  <2>1. CASE UNCHANGED vars
    BY <2>1 DEF Healing
  <2> QED BY <2>1, HealingGoesOn
<1>3. SubmissionInv /\ Healed /\ [Next]_vars => Healed'
  <2> SUFFICES ASSUME SubmissionInv, Healed, [Next]_vars
               PROVE  Healed'
    OBVIOUS
  <2>1. CASE UNCHANGED vars
    BY <2>1 DEF Healed, Told
  <2> QED BY <2>1, HealedStays
<1>4. Healing(d) => ~Idle(d)
  BY DEF Healing
<1>5. Healed => Told
  BY DEF Healed
<1> HIDE DEF SubmissionInv, Idle
<1> QED BY <1>1, <1>2, <1>3, <1>4, <1>5, SubmissionInvariant, PTL DEF Spec
===============================================================================
