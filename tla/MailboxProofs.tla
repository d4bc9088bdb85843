--------------------------- MODULE MailboxProofs ---------------------------
(***************************************************************************)
(* Theorems about Mailbox, for a FIFO of any depth, any number of messages  *)
(* and any use of the methods by the two sides.                             *)
(***************************************************************************)
EXTENDS Mailbox, TLAPS

(***************************************************************************)
(* The link.                                                                *)
(***************************************************************************)

\* A side has exactly one peer, and is the peer of its peer.
LEMMA OneOther ==
  ASSUME NEW s \in Sides
  PROVE  /\ Other(s) \in Sides /\ Other(s) # s
         /\ Other(Other(s)) = s
         /\ Sides = {s, Other(s)}
<1>1. PICK t \in Sides : t # s /\ Sides = {s, t}
  BY ConstantsAssumption
<1>2. Other(s) \in Sides /\ Other(s) # s
  BY <1>1 DEF Other
<1>3. Other(Other(s)) \in Sides /\ Other(Other(s)) # Other(s)
  BY <1>1, <1>2 DEF Other
<1> QED
  BY <1>1, <1>2, <1>3

\* Whatever a method waits for, it is an event of the status register.
LEMMA EventType ==
  ASSUME NEW o \in AsyncOps \cup {"nb_send", "nb_recv"}
  PROVE  Event(o) \in Events /\ Slot(Event(o)) \in Slots
  BY DEF AsyncOps, Event, Events, Slot, Slots

\* The types of what is in flight and of the counters.
LinkType ==
  /\ txreg \in [Sides -> 0 .. MaxSent]
  /\ txfifo \in [Sides -> Seq(1 .. MaxSent)]
  /\ \A s \in Sides : Len(txfifo[s]) <= FifoDepth
  /\ sent \in [Sides -> [Channels -> 0 .. MaxSent]]
  /\ received \in [Sides -> [Channels -> 0 .. MaxSent]]


\* One counter of a side is set to a value.
LEMMA SetCount ==
  ASSUME NEW M \in Nat, NEW f \in [Sides -> [Channels -> 0 .. M]],
         NEW s \in Sides, NEW c \in Channels, NEW n \in 0 .. M
  PROVE  [f EXCEPT ![s][c] = n] \in [Sides -> [Channels -> 0 .. M]]
  OBVIOUS

\* The four ways a method moves a message, each from a link of the right types
\* to a link of the right types.
LEMMA TransferType ==
  ASSUME LinkType, NEW s \in Sides, NEW e \in Events, e \in Status(s), Transfer(s, e)
  PROVE  LinkType'
<1> DEFINE t == Other(s)
<1>0. FifoDepth \in Nat \ {0} /\ MaxSent \in Nat
  BY ConstantsAssumption
<1>1. t \in Sides /\ t # s
  BY OneOther
<1> HIDE DEF t
<1> USE <1>0 DEF LinkType
<1>2. CASE e = "twme" /\ PutWord(s)
  <2>1. sent[s]["word"] + 1 \in 0 .. MaxSent /\ "word" \in Channels
    BY <1>2 DEF PutWord, Channels
  <2>2. sent' \in [Sides -> [Channels -> 0 .. MaxSent]]
    BY <1>2, <2>1, SetCount DEF PutWord
  <2> QED
    BY <1>2, <2>1, <2>2 DEF PutWord
<1>3. CASE e = "rwmv" /\ TakeWord(s)
  <2>1. received' = [received EXCEPT ![t]["word"] = txreg[t]] /\ "word" \in Channels
    BY <1>3 DEF TakeWord, Channels, t
  <2>2. received' \in [Sides -> [Channels -> 0 .. MaxSent]]
    BY <1>1, <2>1, SetCount
  <2> QED
    BY <1>1, <1>3, <2>2 DEF TakeWord, t
<1>4. CASE e = "tfma" /\ PutFifo(s)
  <2>1. sent[s]["fifo"] + 1 \in 1 .. MaxSent /\ "fifo" \in Channels
    BY <1>4 DEF PutFifo, Channels
  <2>2. sent' \in [Sides -> [Channels -> 0 .. MaxSent]]
    BY <1>4, <2>1, SetCount DEF PutFifo
  <2>3. Len(txfifo[s]) < FifoDepth
    BY <1>4 DEF Status
  <2>4. txfifo' = [txfifo EXCEPT ![s] = Append(@, sent[s]["fifo"] + 1)]
    BY <1>4, <2>3 DEF PutFifo
  <2>5. /\ Append(txfifo[s], sent[s]["fifo"] + 1) \in Seq(1 .. MaxSent)
        /\ Len(Append(txfifo[s], sent[s]["fifo"] + 1)) <= FifoDepth
    BY <2>1, <2>3
  <2> QED
    BY <1>4, <2>2, <2>4, <2>5 DEF PutFifo
<1>5. CASE e = "rfma" /\ TakeFifo(s)
  <2>1. txfifo[t] # <<>> /\ txfifo[t] \in Seq(1 .. MaxSent)
    BY <1>1, <1>5 DEF Status, t
  <2>2. /\ Head(txfifo[t]) \in 1 .. MaxSent
        /\ Tail(txfifo[t]) \in Seq(1 .. MaxSent)
        /\ Len(Tail(txfifo[t])) <= FifoDepth
    BY <1>1, <2>1
  <2>3. /\ received' = [received EXCEPT ![t]["fifo"] = Head(txfifo[t])]
        /\ txfifo' = [txfifo EXCEPT ![t] = Tail(@)]
        /\ UNCHANGED <<txreg, sent>>
    BY <1>5 DEF TakeFifo, t
  <2>4. received' \in [Sides -> [Channels -> 0 .. MaxSent]]
    <3>1. "fifo" \in Channels /\ Head(txfifo[t]) \in 0 .. MaxSent
      BY <2>2 DEF Channels
    <3> QED
      BY <1>1, <2>3, <3>1, SetCount
  <2> QED
    BY <1>1, <2>2, <2>3, <2>4
<1> QED
  BY <1>2, <1>3, <1>4, <1>5 DEF Transfer

(***************************************************************************)
(* Types.                                                                   *)
(***************************************************************************)

ControlType ==
  /\ cr \in [Sides -> SUBSET Events]
  /\ cr_read \in [Sides -> SUBSET Events]
  /\ pc \in [Sides -> Labels]
  /\ op \in [Sides -> AsyncOps]
  /\ \A s \in Sides : /\ pc[s] = "check" => op[s] # "next"
                      /\ pc[s] = "try" => op[s] \notin {"send", "recv"}
  /\ waker \in [Sides -> [Slots -> {"none", "mine", "other"}]]
  /\ woken \subseteq Sides
  /\ held \subseteq Sides

\* The end of a method keeps the types.
LEMMA FinishType ==
  ASSUME ControlType, NEW s \in Sides, Finish(s), UNCHANGED <<cr, cr_read>>
  PROVE  ControlType'
  BY DEF ControlType, Finish, Goto, Labels, AsyncOps

\* The types hold of an idle mailbox.
LEMMA TypeInit == Init => TypeOK
<1>1. FifoDepth \in Nat \ {0} /\ MaxSent \in Nat
  BY ConstantsAssumption
<1> QED
  BY <1>1 DEF Init, TypeOK, Labels, AsyncOps, Channels, Events, Slots

\* Every step keeps the types.
LEMMA TypeStep == TypeOK /\ [Next]_vars => TypeOK'
<1> SUFFICES ASSUME TypeOK, [Next]_vars PROVE TypeOK'
  OBVIOUS
<1>a. TypeOK <=> LinkType /\ ControlType
  BY DEF TypeOK, LinkType, ControlType
<1>b. UNCHANGED linkVars => LinkType'
  BY <1>a DEF linkVars, LinkType
<1>c. SUFFICES LinkType' /\ ControlType'
  BY DEF TypeOK, LinkType, ControlType
<1>1. ASSUME NEW s \in Sides, NEW o \in AsyncOps, Call(s, o) PROVE LinkType' /\ ControlType'
  BY <1>1, <1>a, <1>b DEF Call, ControlType, Goto, Labels, AsyncOps
<1>2. ASSUME NEW s \in Sides, Try(s) \/ Check(s) PROVE LinkType' /\ ControlType'
  <2>1. op[s] \in AsyncOps \cup {"nb_send", "nb_recv"} /\ Event(op[s]) \in Events
    BY <1>a, EventType DEF ControlType
  <2>2. CASE Event(op[s]) \in Status(s) /\ Transfer(s, Event(op[s])) /\ Finish(s)
    BY <1>2, <1>a, <2>1, <2>2, TransferType, FinishType DEF Try, Check
  <2>3. CASE UNCHANGED <<linkVars, op, waker, woken, held>> /\ Goto(s, "enableRead")
    BY <1>2, <2>3, <1>a, <1>b DEF Try, Check, ControlType, Goto, Labels
  <2>4. CASE UNCHANGED <<linkVars, op, waker, woken, held>> /\ Goto(s, "register")
    BY <1>2, <2>4, <1>a, <1>b DEF Try, Check, ControlType, Goto, Labels
  <2> QED
    BY <1>2, <2>2, <2>3, <2>4 DEF Try, Check
<1>3. ASSUME NEW s \in Sides, EnableRead(s) PROVE LinkType' /\ ControlType'
  BY <1>3, <1>a, <1>b DEF EnableRead, ControlType, Goto, Labels
<1>4. ASSUME NEW s \in Sides, EnableWrite(s) PROVE LinkType' /\ ControlType'
  <2>1. Event(op[s]) \in Events
    BY <1>a, EventType DEF ControlType
  <2> QED
    BY <1>4, <2>1, <1>a, <1>b DEF EnableWrite, ControlType, Goto, Labels
<1>5. ASSUME NEW s \in Sides, Register(s) PROVE LinkType' /\ ControlType'
  <2>1. Slot(Event(op[s])) \in Slots
    BY <1>a, EventType DEF ControlType
  <2>2. waker' \in [Sides -> [Slots -> {"none", "mine", "other"}]]
    BY <1>5, <2>1, <1>a DEF Register, ControlType
  <2> QED
    BY <1>5, <2>2, <1>a, <1>b DEF Register, ControlType, Goto, Labels
<1>6. ASSUME NEW s \in Sides, Poll(s) PROVE LinkType' /\ ControlType'
  BY <1>6, <1>a, <1>b DEF Poll, ControlType, Goto, Labels
<1>7. ASSUME NEW s \in Sides, Cancel(s) PROVE LinkType' /\ ControlType'
  BY <1>7, <1>a, <1>b, FinishType DEF Cancel
<1>8. ASSUME NEW s \in Sides, NEW o \in {"nb_send", "nb_recv"}, NonBlocking(s, o)
      PROVE  LinkType' /\ ControlType'
  <2>1. Event(o) \in Events
    BY EventType
  <2> QED
    BY <1>8, <2>1, <1>a, TransferType DEF NonBlocking, ControlType
<1>9. ASSUME NEW s \in Sides, Reopen(s) PROVE LinkType' /\ ControlType'
  BY <1>9, <1>a, <1>b DEF Reopen, ControlType
<1>10. ASSUME NEW s \in Sides, OnInterrupt(s) PROVE LinkType' /\ ControlType'
  BY <1>10, <1>a, <1>b DEF OnInterrupt, ControlType
<1>11. CASE UNCHANGED vars
  BY <1>11, <1>a, <1>b DEF vars, ControlType
<1> QED
  BY <1>1, <1>2, <1>3, <1>4, <1>5, <1>6, <1>7, <1>8, <1>9, <1>10, <1>11 DEF Next, Step

\* Every variable keeps its type: the FIFO never holds more than its depth, a
\* method is only in the parts of its code that it has.
THEOREM TypeCorrect == Spec => []TypeOK
  BY TypeInit, TypeStep, PTL DEF Spec, Safety

(***************************************************************************)
(* Order.                                                                   *)
(***************************************************************************)

\* The numbers a + 1 .. a + n in order: what is under way on a FIFO.
Run(a, n) == [i \in 1 .. n |-> a + i]

\* A message more at the end of such a stretch, or one less at its front.
LEMMA RunPut ==
  ASSUME NEW a \in Nat, NEW n \in Nat
  PROVE  Append(Run(a, n), a + n + 1) = Run(a, n + 1)
<1>1. Run(a, n) \in Seq(Nat) /\ Len(Run(a, n)) = n
  BY DEF Run
<1> QED
  BY <1>1 DEF Run

\* The first of a run of numbers, and the run without it.
LEMMA RunTake ==
  ASSUME NEW a \in Nat, NEW n \in Nat, n # 0
  PROVE  Head(Run(a, n)) = a + 1 /\ Tail(Run(a, n)) = Run(a + 1, n - 1)
<1>1. Run(a, n) \in Seq(Nat) /\ Len(Run(a, n)) = n
  BY DEF Run
<1> QED
  BY <1>1 DEF Run

\* A run of no numbers, and no other, is empty.
LEMMA RunEmpty ==
  ASSUME NEW a \in Nat, NEW n \in Nat
  PROVE  Run(a, n) = <<>> <=> n = 0
<1>1. Run(a, n) \in Seq(Nat) /\ Len(Run(a, n)) = n
  BY DEF Run
<1> QED
  BY <1>1 DEF Run

\* What one side has under way, with what that relies on: nothing is received
\* that was not sent.
SideInOrder(s) ==
  /\ received[s]["word"] <= sent[s]["word"] /\ received[s]["fifo"] <= sent[s]["fifo"]
  /\ txreg[s] = IF sent[s]["word"] = received[s]["word"] THEN 0 ELSE sent[s]["word"]
  /\ sent[s]["word"] <= received[s]["word"] + 1
  /\ txfifo[s] = Run(received[s]["fifo"], sent[s]["fifo"] - received[s]["fifo"])

LinkInOrder == \A s \in Sides : SideInOrder(s)

\* Each way of moving a message keeps what is under way in order.  The status
\* is what keeps it: a word is only written over one that was read, and only
\* what is there is taken.
LEMMA TransferInOrder ==
  ASSUME LinkType, LinkInOrder,
         NEW s \in Sides, NEW e \in Events, e \in Status(s), Transfer(s, e)
  PROVE  LinkInOrder'
<1> DEFINE t == Other(s)
<1>0. FifoDepth \in Nat \ {0} /\ MaxSent \in Nat /\ "word" \in Channels /\ "fifo" \in Channels
  BY ConstantsAssumption DEF Channels
<1>1. t \in Sides /\ t # s
  BY OneOther
<1> HIDE DEF t
<1>2. \A r \in Sides : /\ sent[r]["word"] \in Nat /\ sent[r]["fifo"] \in Nat
                       /\ received[r]["word"] \in Nat /\ received[r]["fifo"] \in Nat
                       /\ sent[r]["word"] <= MaxSent /\ sent[r]["fifo"] <= MaxSent
                       /\ SideInOrder(r)
  BY <1>0 DEF LinkType, LinkInOrder
<1>a. /\ sent \in [Sides -> [Channels -> 0 .. MaxSent]]
      /\ received \in [Sides -> [Channels -> 0 .. MaxSent]]
      /\ txreg \in [Sides -> 0 .. MaxSent]
      /\ txfifo \in [Sides -> Seq(1 .. MaxSent)]
  BY DEF LinkType
<1> SUFFICES ASSUME NEW r \in Sides PROVE SideInOrder(r)'
  BY DEF LinkInOrder
<1> USE <1>0, <1>1
<1>3. CASE e = "twme" /\ PutWord(s)
  <2>1. txreg[s] = 0
    BY <1>3 DEF Status
  <2>2. sent[s]["word"] = received[s]["word"]
    BY <1>2, <2>1 DEF SideInOrder
  <2>4. /\ sent'[r]["word"] = IF r = s THEN sent[s]["word"] + 1 ELSE sent[r]["word"]
        /\ sent'[r]["fifo"] = sent[r]["fifo"]
    BY <1>3, <1>a DEF PutWord
  <2>5. /\ txreg'[r] = IF r = s THEN sent[s]["word"] + 1 ELSE txreg[r]
        /\ UNCHANGED <<txfifo, received>>
    BY <1>3, <1>a DEF PutWord
  <2> QED
    BY <1>2, <2>2, <2>4, <2>5 DEF SideInOrder
<1>4. CASE e = "rwmv" /\ TakeWord(s)
  <2>1. txreg[t] # 0
    BY <1>4 DEF Status, t
  <2>2. txreg[t] = sent[t]["word"]
    BY <1>2, <2>1 DEF SideInOrder
  <2>3. /\ received' = [received EXCEPT ![t]["word"] = txreg[t]]
        /\ txreg' = [txreg EXCEPT ![t] = 0]
        /\ UNCHANGED <<txfifo, sent>>
    BY <1>4 DEF TakeWord, t
  <2>4. /\ received'[r]["word"] = IF r = t THEN txreg[t] ELSE received[r]["word"]
        /\ received'[r]["fifo"] = received[r]["fifo"]
        /\ txreg'[r] = IF r = t THEN 0 ELSE txreg[r]
    BY <1>a, <2>3
  <2> QED
    BY <1>2, <2>2, <2>3, <2>4 DEF SideInOrder
<1>5. CASE e = "tfma" /\ PutFifo(s)
  <2>1. Len(txfifo[s]) < FifoDepth
    BY <1>5 DEF Status
  <2>2. /\ sent'[r]["fifo"] = IF r = s THEN sent[s]["fifo"] + 1 ELSE sent[r]["fifo"]
        /\ sent'[r]["word"] = sent[r]["word"]
    BY <1>5, <1>a DEF PutFifo
  <2>3. /\ txfifo'[r] = IF r = s THEN Append(txfifo[s], sent[s]["fifo"] + 1) ELSE txfifo[r]
        /\ UNCHANGED <<txreg, received>>
    BY <1>5, <1>a, <2>1 DEF PutFifo
  <2>4. CASE r = s
    <3> DEFINE a == received[s]["fifo"]
               n == sent[s]["fifo"] - a
    <3>1. a \in Nat /\ n \in Nat /\ sent[s]["fifo"] + 1 = a + n + 1 /\ txfifo[s] = Run(a, n)
      BY <1>2 DEF SideInOrder
    <3>2. txfifo'[s] = Run(a, n + 1)
      <4> HIDE DEF a, n
      <4> QED
        BY <2>3, <2>4, <3>1, RunPut
    <3>3. a = received'[r]["fifo"]
      BY <2>3, <2>4
    <3>4. sent'[r]["fifo"] = a + n + 1
      BY <2>2, <2>4, <3>1
    <3>5. n + 1 = sent'[r]["fifo"] - received'[r]["fifo"]
      <4> HIDE DEF a, n
      <4> QED
        BY <3>1, <3>3, <3>4
    <3>6. /\ received'[r]["word"] <= sent'[r]["word"]
          /\ sent'[r]["word"] <= received'[r]["word"] + 1
          /\ txreg'[r] = IF sent'[r]["word"] = received'[r]["word"] THEN 0 ELSE sent'[r]["word"]
      BY <1>2, <2>2, <2>3 DEF SideInOrder
    <3>7. received'[r]["fifo"] <= sent'[r]["fifo"]
      <4> HIDE DEF a, n
      <4> QED
        BY <3>1, <3>3, <3>4
    <3> HIDE DEF a, n
    <3> QED
      BY <2>4, <3>6, <3>7, <3>2, <3>3, <3>5 DEF SideInOrder
  <2>5. CASE r # s
    BY <1>2, <2>2, <2>3, <2>5 DEF SideInOrder
  <2> QED
    BY <2>4, <2>5
<1>6. CASE e = "rfma" /\ TakeFifo(s)
  <2> DEFINE a == received[t]["fifo"]
             n == sent[t]["fifo"] - a
  <2>1. a \in Nat /\ n \in Nat /\ sent[t]["fifo"] = a + n /\ txfifo[t] = Run(a, n)
    BY <1>2 DEF SideInOrder
  <2>2. txfifo[t] # <<>>
    BY <1>6 DEF Status, t
  <2>3. n # 0 /\ Head(txfifo[t]) = a + 1 /\ Tail(txfifo[t]) = Run(a + 1, n - 1)
    <3> HIDE DEF a, n
    <3> QED
      BY <2>1, <2>2, RunEmpty, RunTake
  <2>5. /\ received' = [received EXCEPT ![t]["fifo"] = Head(txfifo[t])]
        /\ txfifo' = [txfifo EXCEPT ![t] = Tail(@)]
        /\ UNCHANGED <<txreg, sent>>
    BY <1>6 DEF TakeFifo, t
  <2>6. /\ received'[r]["fifo"] = IF r = t THEN a + 1 ELSE received[r]["fifo"]
        /\ received'[r]["word"] = received[r]["word"]
        /\ txfifo'[r] = IF r = t THEN Run(a + 1, n - 1) ELSE txfifo[r]
    <3> HIDE DEF a, n
    <3> QED
      BY <1>a, <2>3, <2>5
  <2>7. CASE r = t
    <3>1. txfifo'[t] = Run(a + 1, n - 1)
      BY <2>6, <2>7
    <3>2. a + 1 = received'[r]["fifo"] /\ sent'[r]["fifo"] = a + n
      BY <2>1, <2>5, <2>6, <2>7
    <3>6. n - 1 = sent'[r]["fifo"] - received'[r]["fifo"]
      <4> HIDE DEF a, n
      <4> QED
        BY <2>1, <2>3, <3>2
    <3>3. a + 1 <= sent[t]["fifo"]
      <4> HIDE DEF a, n
      <4> QED
        BY <2>1, <2>3
    <3>4. /\ received'[r]["word"] <= sent'[r]["word"]
          /\ sent'[r]["word"] <= received'[r]["word"] + 1
          /\ txreg'[r] = IF sent'[r]["word"] = received'[r]["word"] THEN 0 ELSE sent'[r]["word"]
      BY <1>2, <2>5, <2>6 DEF SideInOrder
    <3>5. received'[r]["fifo"] <= sent'[r]["fifo"]
      BY <2>5, <2>6, <2>7, <3>3
    <3> HIDE DEF a, n
    <3> QED
      BY <2>7, <3>4, <3>5, <3>1, <3>2, <3>6 DEF SideInOrder
  <2>8. CASE r # t
    BY <1>2, <2>5, <2>6, <2>8 DEF SideInOrder
  <2> QED
    BY <2>7, <2>8
<1> QED
  BY <1>3, <1>4, <1>5, <1>6 DEF Transfer

\* A step moves a message by one of the four ways, or leaves the link alone.
LEMMA StepsOfTheLink ==
  ASSUME TypeOK, [Next]_vars
  PROVE  \/ UNCHANGED linkVars
         \/ \E s \in Sides, e \in Events : e \in Status(s) /\ Transfer(s, e)
<1>1. \A s \in Sides : Event(op[s]) \in Events
  BY EventType DEF TypeOK
<1>2. \A o \in {"nb_send", "nb_recv"} : Event(o) \in Events
  BY EventType
<1>3. CASE UNCHANGED vars
  BY <1>3 DEF vars
<1>4. ASSUME NEW s \in Sides, Try(s) \/ Check(s)
      PROVE  \/ UNCHANGED linkVars
             \/ \E e \in Events : e \in Status(s) /\ Transfer(s, e)
  BY <1>1, <1>4 DEF Try, Check
<1>5. ASSUME NEW s \in Sides, NEW o \in {"nb_send", "nb_recv"}, NonBlocking(s, o)
      PROVE  \E e \in Events : e \in Status(s) /\ Transfer(s, e)
  BY <1>2, <1>5 DEF NonBlocking
<1> QED
  BY <1>3, <1>4, <1>5
  DEF Next, Step, Call, EnableRead, EnableWrite, Register, Poll, Cancel, Reopen, OnInterrupt

\* Nothing is sent, nothing is under way.
LEMMA OrderInit == Init => LinkInOrder
<1> SUFFICES ASSUME Init, NEW s \in Sides PROVE SideInOrder(s)
  BY DEF LinkInOrder
<1>1. /\ sent[s]["word"] = 0 /\ received[s]["word"] = 0
      /\ sent[s]["fifo"] = 0 /\ received[s]["fifo"] = 0
  BY DEF Init, Channels
<1>2. txreg[s] = 0 /\ txfifo[s] = <<>>
  BY DEF Init
<1>3. Run(0, 0) = <<>> /\ 0 - 0 = 0
  BY RunEmpty
<1> QED
  BY <1>1, <1>2, <1>3 DEF SideInOrder

\* Every step keeps the numbers of a channel in one run.
LEMMA OrderStep == TypeOK /\ LinkInOrder /\ [Next]_vars => LinkInOrder'
<1> SUFFICES ASSUME TypeOK, LinkInOrder, [Next]_vars PROVE LinkInOrder'
  OBVIOUS
<1>1. CASE UNCHANGED linkVars
  BY <1>1 DEF linkVars, LinkInOrder, SideInOrder
<1>2. CASE \E s \in Sides, e \in Events : e \in Status(s) /\ Transfer(s, e)
  <2>1. LinkType
    BY DEF TypeOK, LinkType
  <2> QED
    BY <1>2, <2>1, TransferInOrder
<1> QED
  BY <1>1, <1>2, StepsOfTheLink

\* Words arrive once and in the order of sending, and none is written over
\* before it was read, whatever methods the two sides call and cancel.
THEOREM WordsInOrder == Spec => []InOrder
<1>1. LinkInOrder => InOrder
  BY DEF LinkInOrder, SideInOrder, InOrder, Run
<1> QED
  BY <1>1, TypeInit, TypeStep, OrderInit, OrderStep, PTL DEF Spec, Safety

(***************************************************************************)
(* Wakeups.                                                                 *)
(***************************************************************************)

\* What a task whose waker was held relies on at each point of a method.  Its
\* waker stays in the slot of its event to the end.  From the enabling of the
\* interrupt on, the interrupt is enabled or has been served: then the event is
\* there, and stays there as only this side can use it up.  Past the look at the
\* status, an interrupt that was served has woken the task.
Told(s) ==
  /\ pc[s] # "idle"
  /\ waker[s][Slot(Event(op[s]))] = "mine"
  /\ pc[s] = "check" => Event(op[s]) \in cr[s] \cup Status(s)
  /\ pc[s] \in {"register", "pending"} =>
       \/ Event(op[s]) \in cr[s]
       \/ s \in woken /\ Event(op[s]) \in Status(s)

WakeupInv == \A s \in held : Told(s)

\* What a side waits for stays until that side uses it up itself.
LEMMA StatusStays ==
  ASSUME LinkType, NEW s \in Sides, NEW r \in Sides, r # s,
         NEW e \in Events, e \in Status(r), Transfer(r, e)
  PROVE  Status(s) \subseteq Status(s)'
<1>1. /\ Other(s) \in Sides /\ Other(s) # s /\ Other(r) = s /\ Other(s) = r
  BY OneOther
<1>2. UNCHANGED Other(s)
  BY DEF Other
<1>3. FifoDepth \in Nat \ {0} /\ MaxSent \in Nat
  BY ConstantsAssumption
<1> USE <1>1, <1>2, <1>3 DEF LinkType, Status
<1>4. CASE e = "twme" /\ PutWord(r)
  <2>1. sent[r]["word"] + 1 # 0 /\ txreg'[s] = txreg[s] /\ txreg'[r] = sent[r]["word"] + 1
    BY <1>4 DEF PutWord, Channels
  <2> QED
    BY <1>4, <2>1 DEF PutWord
<1>5. CASE e = "rwmv" /\ TakeWord(r)
  <2>1. txreg'[s] = 0 /\ txreg'[r] = txreg[r] /\ UNCHANGED txfifo
    BY <1>5 DEF TakeWord
  <2> QED
    BY <2>1
<1>6. CASE e = "tfma" /\ PutFifo(r)
  <2>1. txfifo'[s] = txfifo[s] /\ UNCHANGED txreg
    BY <1>6 DEF PutFifo
  <2>2. txfifo[r] # <<>> => txfifo'[r] # <<>>
    BY <1>6 DEF PutFifo
  <2> QED
    BY <2>1, <2>2
<1>7. CASE e = "rfma" /\ TakeFifo(r)
  <2>1. txfifo'[r] = txfifo[r] /\ txfifo'[s] = Tail(txfifo[s]) /\ UNCHANGED txreg
    BY <1>7 DEF TakeFifo
  <2>2. txfifo[s] \in Seq(1 .. MaxSent) /\ txfifo[s] # <<>> /\ Len(txfifo[s]) <= FifoDepth
    BY <1>7
  <2>3. Len(txfifo'[s]) < FifoDepth
    <3> HIDE DEF LinkType, Status
    <3> QED
      BY <1>3, <2>1, <2>2
  <2> QED
    BY <2>1, <2>3
<1> QED
  BY <1>4, <1>5, <1>6, <1>7 DEF Transfer

\* A method that ends leaves nothing to be told.
LEMMA FinishTold ==
  ASSUME TypeOK, WakeupInv, NEW s \in Sides, Finish(s), UNCHANGED <<cr, cr_read>>,
         \A r \in Sides : r # s => Status(r) \subseteq Status(r)'
  PROVE  WakeupInv'
<1> SUFFICES ASSUME NEW r \in held' PROVE Told(r)'
  BY DEF WakeupInv
<1>1. r \in held /\ r # s /\ r \in Sides
  BY DEF Finish, TypeOK
<1>2. pc'[r] = pc[r] /\ op'[r] = op[r] /\ waker'[r] = waker[r] /\ (r \in woken => r \in woken')
  BY <1>1 DEF Finish, Goto, TypeOK
<1>3. Told(r) /\ Status(r) \subseteq Status(r)'
  BY <1>1 DEF WakeupInv
<1> QED
  BY <1>2, <1>3 DEF Told

\* With the link untouched the status is too.
LEMMA StatusSame == UNCHANGED linkVars => \A s \in Sides : Status(s)' = Status(s)
  BY DEF linkVars, Status, Other

\* Every step keeps a held task told of what it waits for.
LEMMA WakeupStep == TypeOK /\ WakeupInv /\ [Next]_vars => WakeupInv'
<1> SUFFICES ASSUME TypeOK, WakeupInv, [Next]_vars PROVE WakeupInv'
  OBVIOUS
<1>a. LinkType
  BY DEF TypeOK, LinkType
<1>b. /\ pc \in [Sides -> Labels] /\ op \in [Sides -> AsyncOps]
      /\ cr \in [Sides -> SUBSET Events] /\ cr_read \in [Sides -> SUBSET Events]
      /\ waker \in [Sides -> [Slots -> {"none", "mine", "other"}]]
      /\ woken \subseteq Sides /\ held \subseteq Sides
      /\ \A s \in Sides : pc[s] = "check" => op[s] # "next"
  BY DEF TypeOK
<1>c. \A s \in Sides : Event(op[s]) \in Events /\ Slot(Event(op[s])) \in Slots
  BY <1>b, EventType
<1>d. \A r \in Sides : r \in held => Told(r)
  BY DEF WakeupInv
<1>e. SUFFICES ASSUME NEW r \in Sides, r \in held' PROVE Told(r)'
  <2>1. held' \subseteq Sides
    BY TypeStep DEF TypeOK
  <2> QED
    BY <2>1, <1>e DEF WakeupInv
<1>1. ASSUME NEW s \in Sides, NEW o \in AsyncOps, Call(s, o) PROVE Told(r)'
  <2>1. Status(r)' = Status(r)
    BY <1>1, StatusSame DEF Call
  <2>2. CASE r = s
    <3>1. PICK w \in [Slots -> {"none", "mine", "other"}] :
            /\ waker' = [waker EXCEPT ![s] = w]
            /\ held' = IF w[Slot(Event(o))] = "mine" THEN held \cup {s} ELSE held \ {s}
      BY <1>1 DEF Call
    <3>2. w[Slot(Event(o))] = "mine" /\ waker'[s] = w /\ op'[s] = o
      BY <1>1, <1>b, <1>e, <2>2, <3>1 DEF Call
    <3>3. pc'[s] \in {"enableRead", "try"}
      BY <1>1, <1>b DEF Call, Goto
    <3> QED
      BY <2>2, <3>2, <3>3 DEF Told
  <2>3. CASE r # s
    <3>1. r \in held
      BY <1>1, <1>e, <2>3 DEF Call
    <3>2. UNCHANGED <<pc[r], op[r], waker[r], cr, woken>>
      BY <1>1, <1>b, <2>3 DEF Call, Goto
    <3> QED
      BY <1>d, <2>1, <3>1, <3>2 DEF Told
  <2> QED
    BY <2>2, <2>3
<1>2. ASSUME NEW s \in Sides, Try(s) PROVE Told(r)'
  <2>1. CASE Event(op[s]) \in Status(s) /\ Transfer(s, Event(op[s])) /\ Finish(s)
    <3>1. \A q \in Sides : q # s => Status(q) \subseteq Status(q)'
      BY <1>a, <1>c, <2>1, StatusStays
    <3> QED
      BY <1>2, <1>e, <2>1, <3>1, FinishTold DEF Try, WakeupInv
  <2>2. CASE Goto(s, "enableRead") /\ UNCHANGED <<linkVars, op, waker, woken, held>>
    BY <1>2, <1>b, <1>d, <1>e, <2>2, StatusSame DEF Try, Goto, Told
  <2> QED
    BY <1>2, <2>1, <2>2 DEF Try
<1>3. ASSUME NEW s \in Sides, EnableRead(s) PROVE Told(r)'
  BY <1>3, <1>b, <1>d, <1>e, StatusSame DEF EnableRead, Goto, Told
<1>4. ASSUME NEW s \in Sides, EnableWrite(s) PROVE Told(r)'
  BY <1>4, <1>b, <1>c, <1>d, <1>e, StatusSame DEF EnableWrite, Goto, Told
<1>5. ASSUME NEW s \in Sides, Check(s) PROVE Told(r)'
  <2>1. CASE Event(op[s]) \in Status(s) /\ Transfer(s, Event(op[s])) /\ Finish(s)
    <3>1. \A q \in Sides : q # s => Status(q) \subseteq Status(q)'
      BY <1>a, <1>c, <2>1, StatusStays
    <3> QED
      BY <1>5, <1>e, <2>1, <3>1, FinishTold DEF Check, WakeupInv
  <2>2. CASE /\ Event(op[s]) \notin Status(s) /\ Goto(s, "register")
             /\ UNCHANGED <<linkVars, op, waker, woken, held>>
    BY <1>5, <1>b, <1>d, <1>e, <2>2, StatusSame DEF Check, Goto, Told
  <2> QED
    BY <1>5, <2>1, <2>2 DEF Check
<1>6. ASSUME NEW s \in Sides, Register(s) PROVE Told(r)'
  <2>1. waker'[r][Slot(Event(op[r]))] = "mine"
    BY <1>6, <1>b, <1>c, <1>d, <1>e DEF Register, Told
  <2> QED
    BY <1>6, <1>b, <1>d, <1>e, <2>1, StatusSame DEF Register, Goto, Told
<1>7. ASSUME NEW s \in Sides, Poll(s) PROVE Told(r)'
  BY <1>7, <1>b, <1>d, <1>e, StatusSame DEF Poll, Goto, Told
<1>8. ASSUME NEW s \in Sides, Cancel(s) PROVE Told(r)'
  <2>1. UNCHANGED <<linkVars, cr, cr_read>> /\ Finish(s)
    BY <1>8 DEF Cancel
  <2> QED
    BY <1>e, <2>1, FinishTold, StatusSame DEF WakeupInv
<1>9. ASSUME NEW s \in Sides, NEW o \in {"nb_send", "nb_recv"}, NonBlocking(s, o)
      PROVE  Told(r)'
  <2>1. r \in held /\ Told(r) /\ r # s
    BY <1>9, <1>d, <1>e DEF NonBlocking, Told
  <2>2. Event(o) \in Events
    BY EventType
  <2>3. Status(r) \subseteq Status(r)'
    BY <1>9, <1>a, <2>1, <2>2, StatusStays DEF NonBlocking
  <2> QED
    BY <1>9, <2>1, <2>3 DEF NonBlocking, Told
<1>10. ASSUME NEW s \in Sides, Reopen(s) PROVE Told(r)'
  BY <1>10, <1>b, <1>d, <1>e, StatusSame DEF Reopen, Told
<1>11. ASSUME NEW s \in Sides, OnInterrupt(s) PROVE Told(r)'
  <2>1. Status(r)' = Status(r) /\ r \in held /\ Told(r)
    BY <1>11, <1>d, <1>e, StatusSame DEF OnInterrupt
  <2>2. CASE Event(op[r]) \in cr[r] /\ Event(op[r]) \notin cr'[r]
    <3>1. r = s /\ Event(op[r]) \in Served(r)
      BY <1>11, <1>b, <2>2 DEF OnInterrupt
    <3>2. r \in woken' /\ Event(op[r]) \in Status(r)
      BY <1>11, <2>1, <3>1 DEF OnInterrupt, Served, Told
    <3> QED
      BY <1>11, <2>1, <3>2 DEF OnInterrupt, Told
  <2>3. woken \subseteq woken'
    BY <1>11 DEF OnInterrupt
  <2> QED
    BY <1>11, <2>1, <2>2, <2>3 DEF OnInterrupt, Told
<1>12. CASE UNCHANGED vars
  BY <1>12, <1>d, <1>e, StatusSame DEF vars, Told
<1> QED
  BY <1>1, <1>2, <1>3, <1>4, <1>5, <1>6, <1>7, <1>8, <1>9, <1>10, <1>11, <1>12 DEF Next, Step

\* A task that waits and whose waker was in the slot when its method began has
\* the interrupt of its event enabled, whatever the handler and the other calls
\* have written to CR.
THEOREM HeldTasksAreTold == Spec => []WakeupKept
<1>1. Init => WakeupInv
  BY DEF Init, WakeupInv
<1>2. WakeupInv => WakeupKept
  BY DEF WakeupInv, Told, WakeupKept, Waiting
<1> QED
  BY <1>1, <1>2, TypeInit, TypeStep, WakeupStep, PTL DEF Spec, Safety
=============================================================================
