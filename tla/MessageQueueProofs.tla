------------------------- MODULE MessageQueueProofs -------------------------
(***************************************************************************)
(* The ring buffer of ipc.rs is consistent and implements the coalescing   *)
(* FIFO, for every QUEUE_SIZE and every set of messages.                   *)
(***************************************************************************)
EXTENDS MessageQueue, OrderLemmas

Inv == TypeOK /\ RingInv

(* The slot i places after slot h, without the modulo. *)
At(h, i) == IF h + i < QUEUE_SIZE THEN h + i ELSE h + i - QUEUE_SIZE

(* Index arithmetic around the end of the array. *)
LEMMA ModAt ==
    ASSUME NEW h \in Index, NEW i \in 0 .. QUEUE_SIZE
    PROVE  (h + i) % QUEUE_SIZE = At(h, i)
  BY QueueSizeAssumption, SMT DEF Index, At

(* RingInv in terms of At. *)
LinearInv ==
    /\ tail = At(head, count)
    /\ \A i \in Index : messages[At(head, i)] # NoMessage <=> i < count

(* RingInv with the slots counted from head on instead of by their index. *)
LEMMA Linear ==
    ASSUME TypeOK
    PROVE  RingInv <=> LinearInv
  <1>1. (head + count) % QUEUE_SIZE = At(head, count)
    BY ModAt DEF TypeOK
  <1>2. Index \subseteq 0 .. QUEUE_SIZE
    BY QueueSizeAssumption DEF Index
  <1>3. \A i \in Index : (head + i) % QUEUE_SIZE = At(head, i)
    BY <1>2, ModAt DEF TypeOK
  <1> QED BY <1>1, <1>3 DEF RingInv, LinearInv

(* tail + QUEUE_SIZE - 1 is the slot of the newest message. *)
LEMMA LastIndex ==
    ASSUME Inv, count > 0
    PROVE  /\ last_idx = At(head, count - 1)
           /\ last_idx \in Index
           /\ messages[last_idx] # NoMessage
           /\ messages[last_idx] \in Message
  <1>1. LinearInv
    BY Linear DEF Inv
  <1>2. last_idx = At(tail, QUEUE_SIZE - 1)
    <2>1. (tail + (QUEUE_SIZE - 1)) % QUEUE_SIZE = At(tail, QUEUE_SIZE - 1)
      BY ModAt, QueueSizeAssumption DEF Inv, TypeOK, Index
    <2>2. tail + (QUEUE_SIZE - 1) = tail + QUEUE_SIZE - 1
      BY QueueSizeAssumption DEF Inv, TypeOK, Index
    <2> QED BY <2>1, <2>2 DEF last_idx
  <1>3. last_idx = At(head, count - 1) /\ last_idx \in Index
    BY <1>1, <1>2, QueueSizeAssumption DEF Inv, TypeOK, LinearInv, Index, At
  <1>4. messages[At(head, count - 1)] # NoMessage
    <2>1. count - 1 \in Index /\ count - 1 < count
      BY QueueSizeAssumption DEF Inv, TypeOK, Index
    <2> QED BY <1>1, <2>1 DEF LinearInv
  <1> QED BY <1>3, <1>4 DEF Inv, TypeOK

(* MessageQueue::new() gives a consistent ring. *)
LEMMA InitInv == Init => Inv
  <1> SUFFICES ASSUME Init PROVE Inv
    OBVIOUS
  <1>1. TypeOK
    BY QueueSizeAssumption DEF Init, TypeOK, Index
  <1>2. LinearInv
    BY QueueSizeAssumption DEF Init, LinearInv, Index, At
  <1> QED BY <1>1, <1>2, Linear DEF Inv

(* push() and pop() keep the ring consistent. *)
LEMMA StepInv == Inv /\ [Next]_vars => Inv'
  <1> SUFFICES ASSUME Inv, [Next]_vars PROVE Inv'
    OBVIOUS
  <1>0. TypeOK /\ LinearInv
    BY Linear DEF Inv
  <1> SUFFICES TypeOK' /\ LinearInv'
    <2>1. TypeOK' => (RingInv' <=> LinearInv')
      BY Linear, PTL
    <2> QED BY <2>1 DEF Inv
  <1>1. ASSUME NEW m \in Message, PushCoalesce(m) PROVE TypeOK' /\ LinearInv'
    <2>1. count > 0 /\ messages[last_idx] # NoMessage
      BY <1>1 DEF PushCoalesce, CoalescesWithLast
    <2>2. last_idx = At(head, count - 1) /\ last_idx \in Index
      BY <2>1, LastIndex
    <2>3. TypeOK'
      BY <1>0, <1>1, <2>2 DEF PushCoalesce, TypeOK
    <2>4. m # NoMessage
      BY NoMessageAssumption
    <2>5. \A i \in Index : messages'[i] # NoMessage <=> messages[i] # NoMessage
      BY <1>0, <1>1, <2>1, <2>2, <2>4 DEF PushCoalesce, TypeOK
    <2>6. \A i \in Index : At(head, i) \in Index
      BY <1>0, QueueSizeAssumption DEF TypeOK, Index, At
    <2>7. head' = head /\ tail' = tail /\ count' = count
      BY <1>1 DEF PushCoalesce
    <2> QED BY <1>0, <2>3, <2>5, <2>6, <2>7 DEF LinearInv, At
  <1>2. ASSUME NEW m \in Message, PushFull(m) PROVE TypeOK' /\ LinearInv'
    BY <1>0, <1>2 DEF PushFull, TypeOK, LinearInv, At
  <1>3. ASSUME NEW m \in Message, PushStore(m) PROVE TypeOK' /\ LinearInv'
    <2>1. tail' = At(tail, 1)
      BY <1>0, <1>3, ModAt, QueueSizeAssumption DEF PushStore, TypeOK
    <2>2. TypeOK'
      BY <1>0, <1>3, <2>1, QueueSizeAssumption
         DEF PushStore, TypeOK, Full, Index, At
    <2>c. head' = head /\ count' = count + 1 /\ count < QUEUE_SIZE
      BY <1>0, <1>3, QueueSizeAssumption DEF PushStore, TypeOK, Full
    <2>3. tail' = At(head', count')
      BY <1>0, <2>1, <2>c, QueueSizeAssumption DEF TypeOK, LinearInv, Index, At
    <2>4. m # NoMessage
      BY NoMessageAssumption
    <2>5. ASSUME NEW i \in Index
          PROVE  messages'[At(head', i)] # NoMessage <=> i < count'
      <3>1. At(head, i) \in Index /\ (At(head, i) = tail <=> i = count)
        BY <1>0, <2>c, QueueSizeAssumption DEF TypeOK, LinearInv, Index, At
      <3>2. messages'[At(head, i)] =
               IF i = count THEN m ELSE messages[At(head, i)]
        BY <1>0, <1>3, <3>1 DEF PushStore, TypeOK
      <3>3. head' = head /\ count' = count + 1
        BY <2>c
      <3>4. messages[At(head, i)] # NoMessage <=> i < count
        BY <1>0 DEF LinearInv
      <3>5. At(head', i) = At(head, i)
        BY <3>3
      <3>6. i < count + 1 <=> i < count \/ i = count
        BY <1>0 DEF TypeOK, Index
      <3> QED BY <2>4, <3>2, <3>3, <3>4, <3>5, <3>6
    <2> QED BY <2>2, <2>3, <2>5 DEF LinearInv
  <1>4. CASE PopEmpty
    <2>1. TypeOK'
      BY <1>0, <1>4 DEF PopEmpty, TypeOK
    <2>2. LinearInv'
      BY <1>0, <1>4 DEF PopEmpty, LinearInv
    <2> QED BY <2>1, <2>2
  <1>5. CASE PopTake
    <2>1. head' = At(head, 1)
      BY <1>0, <1>5, ModAt, QueueSizeAssumption DEF PopTake, TypeOK
    <2>2. TypeOK'
      BY <1>0, <1>5, <2>1, QueueSizeAssumption DEF PopTake, TypeOK, Index, At
    <2>3. tail' = At(head', count')
      BY <1>0, <1>5, <2>1, QueueSizeAssumption
         DEF PopTake, TypeOK, LinearInv, Index, At
    <2>4. ASSUME NEW i \in Index
          PROVE  messages'[At(head', i)] # NoMessage <=> i < count'
      <3>1. CASE i = QUEUE_SIZE - 1
        <4>1. At(head', i) = head
          BY <1>0, <2>1, <3>1, QueueSizeAssumption DEF TypeOK, Index, At
        <4>2. messages'[head] = NoMessage
          BY <1>0, <1>5 DEF PopTake, TypeOK
        <4>3. ~ (i < count')
          BY <1>0, <1>5, <3>1, QueueSizeAssumption DEF PopTake, TypeOK, Index
        <4> QED BY <4>1, <4>2, <4>3
      <3>2. CASE i # QUEUE_SIZE - 1
        <4>1. /\ i + 1 \in Index
              /\ At(head', i) = At(head, i + 1)
              /\ At(head, i + 1) \in Index
              /\ At(head, i + 1) # head
          BY <1>0, <2>1, <3>2, QueueSizeAssumption DEF TypeOK, Index, At
        <4>2. messages'[At(head, i + 1)] = messages[At(head, i + 1)]
          BY <1>0, <1>5, <4>1 DEF PopTake, TypeOK
        <4>3. messages[At(head, i + 1)] # NoMessage <=> i + 1 < count
          BY <1>0, <4>1 DEF LinearInv
        <4>4. i + 1 < count <=> i < count'
          BY <1>0, <1>5 DEF PopTake, TypeOK, Index
        <4> QED BY <4>1, <4>2, <4>3, <4>4
      <3> QED BY <3>1, <3>2
    <2> QED BY <2>2, <2>3, <2>4 DEF LinearInv
  <1>6. CASE UNCHANGED vars
    <2>1. TypeOK'
      BY <1>0, <1>6 DEF vars, TypeOK
    <2>2. LinearInv'
      BY <1>0, <1>6 DEF vars, LinearInv
    <2> QED BY <2>1, <2>2
  <1> QED BY <1>1, <1>2, <1>3, <1>4, <1>5, <1>6 DEF Next

(* In every reachable state the ring's variables have their types and the  *)
(* occupied slots are exactly the count slots from head on: the strongest  *)
(* fact about push() and pop() that does not mention the order of messages.*)
THEOREM RingConsistent == Spec => [](TypeOK /\ RingInv)
  <1>1. Spec => []Inv
    BY InitInv, StepInv, PTL DEF Spec
  <1> QED BY <1>1, PTL DEF Inv

(* The ring's indices stay below QUEUE_SIZE and its slots hold messages,   *)
(* after any sequence of push() and pop(), wrap-around included.           *)
THEOREM RingTypeOK == Spec => []TypeOK
  BY RingConsistent, PTL

-----------------------------------------------------------------------------

(* The sequence the ring stands for, slot by slot. *)
QueueFacts ==
    /\ queueOf \in Seq(Message)
    /\ Len(queueOf) = count
    /\ DOMAIN queueOf = 1 .. count
    /\ count \in 0 .. QUEUE_SIZE
    /\ \A i \in 1 .. count : /\ At(head, i - 1) \in Index
                             /\ queueOf[i] = messages[At(head, i - 1)]
                             /\ queueOf[i] \in Message

(* The occupied slots, read from head on, are a sequence of messages. *)
LEMMA QueueSeq == Inv => QueueFacts
  <1> SUFFICES ASSUME Inv PROVE QueueFacts
    OBVIOUS
  <1>1. TypeOK /\ LinearInv
    BY Linear DEF Inv
  <1>2. ASSUME NEW i \in 1 .. count
        PROVE  /\ (head + i - 1) % QUEUE_SIZE = At(head, i - 1)
               /\ At(head, i - 1) \in Index
               /\ messages[At(head, i - 1)] \in Message
    <2>1. i - 1 \in Index /\ i - 1 < count /\ head + (i - 1) = head + i - 1
      BY <1>1, QueueSizeAssumption DEF TypeOK, Index
    <2>2. i - 1 \in 0 .. QUEUE_SIZE
      BY <2>1, QueueSizeAssumption DEF Index
    <2>3. (head + (i - 1)) % QUEUE_SIZE = At(head, i - 1)
      BY <1>1, <2>2, ModAt DEF TypeOK
    <2>4. At(head, i - 1) \in Index
      BY <1>1, <2>1, QueueSizeAssumption DEF TypeOK, Index, At
    <2>5. messages[At(head, i - 1)] # NoMessage
      BY <1>1, <2>1 DEF LinearInv
    <2> QED BY <1>1, <2>1, <2>3, <2>4, <2>5 DEF TypeOK
  <1>3. \A i \in 1 .. count : queueOf[i] = messages[At(head, i - 1)]
    BY <1>2 DEF queueOf
  <1>4. count \in Nat
    BY <1>1, QueueSizeAssumption DEF TypeOK
  <1>5. queueOf \in [1 .. count -> Message]
    BY <1>2 DEF queueOf
  <1> QED BY <1>1, <1>2, <1>3, <1>4, <1>5 DEF QueueFacts, TypeOK

(* push() tests the slot before tail, the FIFO tests its last element: the *)
(* same message.                                                           *)
LEMMA SameCoalescing ==
    ASSUME Inv, NEW m \in Message
    PROVE  /\ CoalescesWithLast(m) <=> Fifo!Coalesces(queueOf, m)
           /\ Fifo!Coalesces(queueOf, m) => count > 0
           /\ queueOf = << >> <=> count = 0
  <1>1. QueueFacts
    BY QueueSeq
  <1>2. queueOf = << >> <=> count = 0
    BY <1>1, QueueSizeAssumption DEF QueueFacts
  <1>3. CASE count = 0
    BY <1>2, <1>3 DEF CoalescesWithLast, Fifo!Coalesces
  <1>4. CASE count > 0
    <2>1. messages[last_idx] = queueOf[count] /\ messages[last_idx] # NoMessage
      BY <1>1, <1>4, LastIndex DEF QueueFacts
    <2> QED BY <1>1, <1>2, <1>4, <2>1
            DEF CoalescesWithLast, Fifo!Coalesces, SameMove, Fifo!SameMove, QueueFacts
  <1> QED BY <1>1, <1>2, <1>3, <1>4, QueueSizeAssumption DEF QueueFacts

(* A coalescing push() replaces the last element of that sequence. *)
LEMMA CoalesceStep ==
    ASSUME Inv, Inv', NEW m \in Message, PushCoalesce(m)
    PROVE  /\ count > 0 /\ count' = count
           /\ queueOf' = [queueOf EXCEPT ![count] = m]
  <1>1. QueueFacts /\ QueueFacts'
    BY QueueSeq, PTL
  <1>2. count > 0
    BY DEF PushCoalesce, CoalescesWithLast
  <1>3. last_idx = At(head, count - 1) /\ last_idx \in Index
    BY <1>2, LastIndex
  <1>4. head' = head /\ count' = count
    BY DEF PushCoalesce
  <1>5. ASSUME NEW i \in 1 .. count
        PROVE  queueOf'[i] = IF i = count THEN m ELSE queueOf[i]
    <2>1. queueOf'[i] = messages'[At(head, i - 1)] /\ At(head, i - 1) \in Index
      BY <1>1, <1>4 DEF QueueFacts
    <2>2. At(head, i - 1) = last_idx <=> i = count
      BY <1>1, <1>3, QueueSizeAssumption DEF Inv, TypeOK, Index, At
    <2> QED BY <1>1, <1>3, <2>1, <2>2 DEF PushCoalesce, QueueFacts, Inv, TypeOK
  <1> QED BY <1>1, <1>2, <1>4, <1>5 DEF QueueFacts

(* A storing push() appends to it. *)
LEMMA StoreStep ==
    ASSUME Inv, Inv', NEW m \in Message, PushStore(m)
    PROVE  count' = count + 1 /\ queueOf' = Append(queueOf, m)
  <1>1. QueueFacts /\ QueueFacts'
    BY QueueSeq, PTL
  <1>2. head' = head /\ count' = count + 1 /\ count < QUEUE_SIZE
    BY QueueSizeAssumption DEF PushStore, Full, Inv, TypeOK
  <1>3. ASSUME NEW i \in 1 .. count + 1
        PROVE  queueOf'[i] = IF i = count + 1 THEN m ELSE queueOf[i]
    <2>1. queueOf'[i] = messages'[At(head, i - 1)] /\ At(head, i - 1) \in Index
      BY <1>1, <1>2 DEF QueueFacts
    <2>2. LinearInv
      BY Linear DEF Inv
    <2>3. At(head, i - 1) = tail <=> i = count + 1
      BY <1>2, <2>2, QueueSizeAssumption DEF Inv, TypeOK, LinearInv, Index, At
    <2>4. i # count + 1 => i \in 1 .. count
      BY QueueSizeAssumption DEF Inv, TypeOK
    <2> QED BY <1>1, <2>1, <2>3, <2>4 DEF PushStore, QueueFacts, Inv, TypeOK
  <1> QED BY <1>1, <1>2, <1>3 DEF QueueFacts

(* A pop() removes its first element. *)
LEMMA TakeStep ==
    ASSUME Inv, Inv', PopTake
    PROVE  /\ count > 0 /\ count' = count - 1
           /\ queueOf' = Tail(queueOf) /\ messages[head] = Head(queueOf)
  <1>1. QueueFacts /\ QueueFacts'
    BY QueueSeq, PTL
  <1>2. /\ head' = At(head, 1) /\ count' = count - 1
        /\ count \in 1 .. QUEUE_SIZE
        /\ messages' = [messages EXCEPT ![head] = NoMessage]
    BY ModAt, QueueSizeAssumption DEF PopTake, Inv, TypeOK
  <1>3. messages[head] = Head(queueOf)
    <2>1. At(head, 0) = head
      BY QueueSizeAssumption DEF Inv, TypeOK, Index, At
    <2> QED BY <1>1, <1>2, <2>1 DEF QueueFacts
  <1>4. ASSUME NEW i \in 1 .. count - 1
        PROVE  queueOf'[i] = queueOf[i + 1]
    <2>1. queueOf'[i] = messages'[At(head', i - 1)]
      BY <1>1, <1>2 DEF QueueFacts
    <2>2. queueOf[i + 1] = messages[At(head, i)] /\ At(head, i) \in Index
      <3>1. i + 1 \in 1 .. count /\ (i + 1) - 1 = i
        BY <1>2
      <3> QED BY <1>1, <3>1 DEF QueueFacts
    <2>3. At(head', i - 1) = At(head, i) /\ At(head, i) # head
      BY <1>2, QueueSizeAssumption DEF Inv, TypeOK, Index, At
    <2> QED BY <1>2, <2>1, <2>2, <2>3 DEF Inv, TypeOK
  <1> QED BY <1>1, <1>2, <1>3, <1>4 DEF QueueFacts

(* The ring buffer implements the bounded coalescing FIFO: under the       *)
(* mapping queue <- queueOf every push() and pop() of ipc.rs is a Push or  *)
(* Pop of the FIFO that returns the same value.                            *)
THEOREM RingImplementsFifo == Spec => ImplementsFifo
  <1>1. Init => Fifo!Init
    BY DEF Init, Fifo!Init, queueOf
  <1>2. ASSUME Inv, Inv', [Next]_vars PROVE [Fifo!Next]_(Fifo!vars)
    <2>0. QueueFacts
      BY <1>2, QueueSeq
    <2>1. ASSUME NEW m \in Message, PushCoalesce(m) PROVE Fifo!Push(m)
      <3>1. Fifo!Coalesces(queueOf, m)
        BY <1>2, <2>1, SameCoalescing DEF PushCoalesce
      <3>2. queueOf' = [queueOf EXCEPT ![Len(queueOf)] = m]
        BY <1>2, <2>0, <2>1, CoalesceStep DEF QueueFacts
      <3> QED BY <2>1, <3>1, <3>2
              DEF PushCoalesce, Fifo!Push, Fifo!Pushes, Fifo!Accepts, Fifo!Pushed
    <2>2. ASSUME NEW m \in Message, PushFull(m) PROVE Fifo!Push(m)
      <3>1. ~ Fifo!Coalesces(queueOf, m)
        BY <1>2, <2>2, SameCoalescing DEF PushFull
      <3>2. ~ (Len(queueOf) < QUEUE_SIZE)
        BY <2>0, <2>2, QueueSizeAssumption DEF PushFull, Full, QueueFacts
      <3>3. queueOf' = queueOf
        BY <2>2 DEF PushFull, queueOf
      <3> QED BY <2>2, <3>1, <3>2, <3>3
              DEF PushFull, Fifo!Push, Fifo!Pushes, Fifo!Accepts
    <2>3. ASSUME NEW m \in Message, PushStore(m) PROVE Fifo!Push(m)
      <3>1. ~ Fifo!Coalesces(queueOf, m)
        BY <1>2, <2>3, SameCoalescing DEF PushStore
      <3>2. Len(queueOf) < QUEUE_SIZE
        BY <2>0, <2>3, QueueSizeAssumption DEF PushStore, Full, QueueFacts
      <3>3. queueOf' = Append(queueOf, m)
        BY <1>2, <2>3, StoreStep
      <3> QED BY <2>3, <3>1, <3>2, <3>3
              DEF PushStore, Fifo!Push, Fifo!Pushes, Fifo!Accepts, Fifo!Pushed
    <2>4. CASE PopEmpty
      <3>1. queueOf = << >> /\ queueOf' = queueOf
        BY <2>0, <2>4 DEF PopEmpty, QueueFacts, queueOf
      <3> QED BY <2>4, <3>1 DEF PopEmpty, Fifo!Next, Fifo!Pop
    <2>5. CASE PopTake
      <3>1. /\ queueOf # << >> /\ queueOf' = Tail(queueOf)
            /\ messages[head] = Head(queueOf)
        BY <1>2, <2>0, <2>5, TakeStep DEF QueueFacts
      <3> QED BY <2>5, <3>1 DEF PopTake, Fifo!Next, Fifo!Pop
    <2>6. CASE UNCHANGED vars
      BY <2>6 DEF vars, Fifo!vars, queueOf
    <2>7. Fifo!Message = Message
      BY DEF Fifo!Message, Message
    <2> QED BY <1>2, <2>1, <2>2, <2>3, <2>4, <2>5, <2>6, <2>7 DEF Next, Fifo!Next
  <1>3. Spec => []Inv
    BY InitInv, StepInv, PTL DEF Spec
  <1> QED BY <1>1, <1>2, <1>3, PTL DEF Spec, ImplementsFifo, Fifo!Spec

(* No two neighbouring queued messages are mouse moves of one sender,      *)
(* whatever the capacity: the coalescing test of push() and the removal    *)
(* from the front by pop() leave at most one move between other messages.  *)
THEOREM MovesStaySpread == Spec => []MovesNeverAdjacent
  <1>1. Init => MovesNeverAdjacent
    BY DEF Init, MovesNeverAdjacent
  <1>2. ASSUME Inv, Inv', MovesNeverAdjacent, [Next]_vars
        PROVE  MovesNeverAdjacent'
    <2>0. QueueFacts
      BY <1>2, QueueSeq
    <2>1. ASSUME NEW m \in Message, PushCoalesce(m) PROVE MovesNeverAdjacent'
      <3>1. count' = count /\ count > 0 /\ queueOf' = [queueOf EXCEPT ![count] = m]
        BY <1>2, <2>1, CoalesceStep
      <3>2. SameMove(queueOf[count], m)
        BY <1>2, <2>0, <2>1, SameCoalescing
           DEF PushCoalesce, Fifo!Coalesces, QueueFacts, SameMove, Fifo!SameMove
      <3>3. ASSUME NEW i \in 1 .. count - 1
            PROVE  ~ SameMove(queueOf'[i], queueOf'[i + 1])
        <4>1. i \in 1 .. count /\ i + 1 \in 1 .. count /\ i # count
          BY <2>0 DEF QueueFacts
        <4>2. queueOf'[i] = queueOf[i]
          BY <2>0, <3>1, <4>1 DEF QueueFacts
        <4>3. queueOf'[i + 1] = IF i + 1 = count THEN m ELSE queueOf[i + 1]
          BY <2>0, <3>1, <4>1 DEF QueueFacts
        <4>4. ~ SameMove(queueOf[i], queueOf[i + 1])
          BY <1>2 DEF MovesNeverAdjacent
        <4> QED BY <3>2, <4>2, <4>3, <4>4 DEF SameMove
      <3> QED BY <3>1, <3>3 DEF MovesNeverAdjacent
    <2>2. ASSUME NEW m \in Message, PushStore(m) PROVE MovesNeverAdjacent'
      <3>1. count' = count + 1 /\ queueOf' = Append(queueOf, m)
        BY <1>2, <2>2, StoreStep
      <3>2. count > 0 => ~ SameMove(queueOf[count], m)
        BY <1>2, <2>0, <2>2, SameCoalescing
           DEF PushStore, Fifo!Coalesces, QueueFacts, SameMove, Fifo!SameMove
      <3>3. ASSUME NEW i \in 1 .. count
            PROVE  ~ SameMove(queueOf'[i], queueOf'[i + 1])
        <4>1. queueOf'[i] = queueOf[i]
          BY <2>0, <3>1 DEF QueueFacts
        <4>2. queueOf'[i + 1] = IF i = count THEN m ELSE queueOf[i + 1]
          BY <2>0, <3>1 DEF QueueFacts
        <4>3. i # count => i \in 1 .. count - 1
          BY <2>0 DEF QueueFacts
        <4>4. i # count => ~ SameMove(queueOf[i], queueOf[i + 1])
          BY <1>2, <4>3 DEF MovesNeverAdjacent
        <4>5. i = count => count > 0
          BY <2>0 DEF QueueFacts
        <4> QED BY <3>2, <4>1, <4>2, <4>4, <4>5
      <3>4. count' - 1 = count
        BY <2>0, <3>1 DEF QueueFacts
      <3> QED BY <3>3, <3>4 DEF MovesNeverAdjacent
    <2>3. CASE PopTake
      <3>1. count > 0 /\ count' = count - 1 /\ queueOf' = Tail(queueOf)
        BY <1>2, <2>3, TakeStep
      <3>2. ASSUME NEW i \in 1 .. count' - 1
            PROVE  ~ SameMove(queueOf'[i], queueOf'[i + 1])
        <4>1. /\ i + 1 \in 1 .. count - 1
              /\ queueOf'[i] = queueOf[i + 1]
              /\ queueOf'[i + 1] = queueOf[(i + 1) + 1]
          BY <2>0, <3>1 DEF QueueFacts
        <4> QED BY <1>2, <4>1 DEF MovesNeverAdjacent
      <3> QED BY <3>2 DEF MovesNeverAdjacent
    <2>4. CASE queueOf' = queueOf /\ count' = count
      BY <1>2, <2>4 DEF MovesNeverAdjacent
    <2>5. ASSUME NEW m \in Message, PushFull(m) PROVE MovesNeverAdjacent'
      BY <2>4, <2>5 DEF PushFull, queueOf
    <2>6. CASE PopEmpty \/ UNCHANGED vars
      BY <2>4, <2>6 DEF PopEmpty, vars, queueOf
    <2> QED BY <1>2, <2>1, <2>2, <2>3, <2>5, <2>6 DEF Next
  <1>3. Spec => []Inv
    BY InitInv, StepInv, PTL DEF Spec
  <1> QED BY <1>1, <1>2, <1>3, PTL DEF Spec

(* Mouse traffic never costs another message: whatever push() overwrites   *)
(* is a move, what it stores goes behind the others, and pop() hands out   *)
(* the first of them when it takes one away.                               *)
THEOREM OthersAreKept == Spec => OthersKept
  <1> DEFINE types == MsgTypes \ {MSG_MOUSE_MOVE}
             old == Others(queueOf)
             new == Others(queueOf)'
             Kept == \/ new = old
                     \/ ret'.op = "push" /\ \E m \in Message : new = Append(old, m)
                     \/ /\ ret'.op = "pop"
                        /\ old # << >> /\ new = Tail(old) /\ ret'.msg = old[1]
  <1>1. ASSUME Inv, Inv', [Next]_vars PROVE Kept \/ UNCHANGED vars
    <2>1. QueueFacts
      BY <1>1, QueueSeq
    <2>2. /\ queueOf \in Seq(Message) /\ Len(queueOf) = count /\ count \in Nat
          /\ \A i \in 1 .. count : queueOf[i] \in Message
      BY <2>1, QueueSizeAssumption DEF QueueFacts
    <2>3. \A m \in Message : m.msg_type \in types <=> m.msg_type # MSG_MOUSE_MOVE
      BY DEF Message
    <2>4. old = OfType(queueOf, types) /\ new = OfType(queueOf', types)
      BY DEF Others
    <2> HIDE DEF types
    <2>5. ASSUME NEW m \in Message, PushCoalesce(m) PROVE Kept
      <3>1. count > 0 /\ queueOf' = [queueOf EXCEPT ![count] = m]
        BY <1>1, <2>5, CoalesceStep
      <3>2. count \in 1 .. Len(queueOf)
        BY <2>2, <3>1
      <3>3. m.msg_type = MSG_MOUSE_MOVE /\ queueOf[count].msg_type = MSG_MOUSE_MOVE
        <4>1. Fifo!Coalesces(queueOf, m)
          BY <1>1, <2>5, SameCoalescing DEF PushCoalesce
        <4> QED BY <2>2, <4>1 DEF Fifo!Coalesces, Fifo!SameMove
      <3>4. m.msg_type \notin types /\ queueOf[count].msg_type \notin types
        BY <2>2, <2>3, <3>2, <3>3
      <3>5. /\ queueOf' \in Seq(Message) /\ Len(queueOf') = Len(queueOf)
            /\ \A i \in 1 .. Len(queueOf) :
                  \/ queueOf'[i] = queueOf[i]
                  \/ queueOf[i].msg_type \notin types /\ queueOf'[i].msg_type \notin types
        BY <2>2, <3>1, <3>2, <3>4
      <3>6. OfType(queueOf', types) = OfType(queueOf, types)
        BY <2>2, <3>5, OfTypeReplace
      <3> QED BY <2>4, <3>6
    <2>6. ASSUME NEW m \in Message, PushFull(m) PROVE Kept
      <3>1. queueOf' = queueOf
        BY <2>6 DEF PushFull, queueOf
      <3> QED BY <2>4, <3>1
    <2>7. ASSUME NEW m \in Message, PushStore(m) PROVE Kept
      <3>1. queueOf' = Append(queueOf, m) /\ ret'.op = "push"
        BY <1>1, <2>7, StoreStep DEF PushStore
      <3>2. \/ OfType(Append(queueOf, m), types) = OfType(queueOf, types)
            \/ OfType(Append(queueOf, m), types) = Append(OfType(queueOf, types), m)
        BY <2>2, OfTypeAppend
      <3> QED BY <2>4, <3>1, <3>2
    <2>8. CASE PopEmpty
      <3>1. queueOf' = queueOf
        BY <2>8 DEF PopEmpty, queueOf
      <3> QED BY <2>4, <3>1
    <2>9. CASE PopTake
      <3>1. /\ queueOf # << >> /\ queueOf' = Tail(queueOf)
            /\ messages[head] = queueOf[1] /\ ret' = [op |-> "pop", msg |-> messages[head]]
        BY <1>1, <2>2, <2>9, TakeStep DEF PopTake
      <3>2. \/ OfType(Tail(queueOf), types) = OfType(queueOf, types)
            \/ /\ OfType(queueOf, types) # << >> /\ Head(OfType(queueOf, types)) = queueOf[1]
               /\ OfType(Tail(queueOf), types) = Tail(OfType(queueOf, types))
        BY <2>2, <3>1, OfTypeTail
      <3>3. \A s : Head(s) = s[1]
        OBVIOUS
      <3> QED BY <2>4, <3>1, <3>2, <3>3
    <2> QED BY <1>1, <2>5, <2>6, <2>7, <2>8, <2>9 DEF Next
  <1>2. Spec => []Inv
    BY InitInv, StepInv, PTL DEF Spec
  <1>3. ASSUME Inv, Inv', [Next]_vars PROVE [Kept]_vars
    BY <1>1, <1>3
  <1> QED BY <1>2, <1>3, PTL DEF Spec, OthersKept
=============================================================================
