-------------------------- MODULE BarrierCellProofs --------------------------
(***************************************************************************)
(* Any number of setters and waiters: set succeeds once, and wait returns  *)
(* the whole value of that call.                                           *)
(***************************************************************************)
EXTENDS BarrierCell, TLAPS

\* Where the setters stand tells the state, and the state is never ahead of the value.
StateFollowsSetter ==
  \A s \in Setter :
    /\ pc[s] \in {"write", "writing", "store"} => state = "Initializing"
    /\ pc[s] \in {"notify", "set"} => state = "Initialized"
    /\ pc[s] = "store" => cell = [val |-> arg[s], whole |-> TRUE]

InitializedIsWhole ==
  state = "Initialized" =>
    \E s \in Setter : pc[s] \in {"notify", "set"} /\ cell = [val |-> arg[s], whole |-> TRUE]

\* Nobody is woken, reads or has returned before the state is Initialized.
ReadersAreLate ==
  \A w \in Waiter :
    /\ w \in notified \/ pc[w] \in {"read", "returned"} => state = "Initialized"
    /\ pc[w] = "returned" => got[w] = cell

SetterPc == \A s \in Setter : pc[s] \in {"start", "write", "writing", "store", "notify", "set",
                                         "refused"}
WaiterPc == \A w \in Waiter : pc[w] \in {"start", "registered", "parked", "read", "returned"}

CellInv == /\ TypeOK /\ SetterPc /\ WaiterPc
           /\ SetOnce /\ StateFollowsSetter /\ InitializedIsWhole /\ ReadersAreLate

\* The empty cell satisfies the invariant.
LEMMA InitCell == Init => CellInv
  BY ConstantsAssumption DEF Init, CellInv, TypeOK, SetterPc, WaiterPc, SetOnce, InSet,
     StateFollowsSetter, InitializedIsWhole, ReadersAreLate, Uninit

\* Types are kept by every step.
LEMMA StepTypes ==
  ASSUME CellInv, [Next]_vars PROVE TypeOK' /\ SetterPc' /\ WaiterPc'
  <1> USE ConstantsAssumption DEF CellInv, TypeOK, SetterPc, WaiterPc, Goto
  <1>1. ASSUME NEW s \in Setter, SetStep(s) PROVE TypeOK' /\ SetterPc' /\ WaiterPc'
    <2>1. CASE SetBegin(s) \/ SetRefused(s)
      BY <2>1 DEF SetBegin, SetRefused, CompareExchange
    <2>2. CASE WriteFirstHalf(s) \/ WriteSecondHalf(s)
      <3>1. arg[s] \in Value /\ UNCHANGED <<state, arg, notified, got>>
        BY <2>2 DEF WriteFirstHalf, WriteSecondHalf
      <3>2. cell' \in [val : Value \cup {NoValue}, whole : BOOLEAN]
        <4>1. \/ cell' = [val |-> arg[s], whole |-> FALSE]
              \/ cell' = [val |-> arg[s], whole |-> TRUE]
          BY <2>2 DEF WriteFirstHalf, WriteSecondHalf
        <4>2. \A x \in BOOLEAN : [val |-> arg[s], whole |-> x] \in
                [val : Value \cup {NoValue}, whole : BOOLEAN]
          BY <3>1
        <4> QED
          BY <4>1, <4>2
      <3>3. pc' \in {[pc EXCEPT ![s] = "writing"], [pc EXCEPT ![s] = "store"]}
        BY <2>2 DEF WriteFirstHalf, WriteSecondHalf
      <3> QED
        BY <3>1, <3>2, <3>3
    <2>3. CASE StoreInitialized(s)
      BY <2>3 DEF StoreInitialized
    <2>4. CASE NotifyWaiters(s)
      BY <2>4 DEF NotifyWaiters, Registered
    <2> QED
      BY <1>1, <2>1, <2>2, <2>3, <2>4 DEF SetStep
  <1>2. ASSUME NEW w \in Waiter, WaitStep(w) \/ CancelWait(w)
        PROVE  TypeOK' /\ SetterPc' /\ WaiterPc'
    BY <1>2 DEF WaitStep, Register, Park, LoadInitialized, Wake, ReadValue, CancelWait
  <1>3. CASE UNCHANGED vars
    BY <1>3 DEF vars
  <1> QED
    BY <1>1, <1>2, <1>3 DEF Next

\* A step of a setter keeps the rest of the invariant.
LEMMA StepSetter ==
  ASSUME CellInv, NEW s \in Setter, SetStep(s)
  PROVE  SetOnce' /\ StateFollowsSetter' /\ InitializedIsWhole' /\ ReadersAreLate'
  <1> USE ConstantsAssumption DEF CellInv, TypeOK, SetterPc, WaiterPc, Goto, SetOnce, InSet,
          StateFollowsSetter, InitializedIsWhole, ReadersAreLate
  <1>1. CASE SetBegin(s)
    BY <1>1 DEF SetBegin, CompareExchange
  <1>2. CASE SetRefused(s)
    BY <1>2 DEF SetRefused
  <1>3. CASE WriteFirstHalf(s) \/ WriteSecondHalf(s)
    BY <1>3 DEF WriteFirstHalf, WriteSecondHalf
  <1>4. CASE StoreInitialized(s)
    BY <1>4 DEF StoreInitialized
  <1>5. CASE NotifyWaiters(s)
    BY <1>5 DEF NotifyWaiters
  <1> QED
    BY <1>1, <1>2, <1>3, <1>4, <1>5 DEF SetStep

\* So does a step of a waiter, which changes neither the state nor the cell.
LEMMA StepWaiter ==
  ASSUME CellInv, NEW w \in Waiter, WaitStep(w) \/ CancelWait(w)
  PROVE  SetOnce' /\ StateFollowsSetter' /\ InitializedIsWhole' /\ ReadersAreLate'
  <1> USE ConstantsAssumption DEF CellInv, TypeOK, SetterPc, WaiterPc, Goto, SetOnce, InSet,
          StateFollowsSetter, InitializedIsWhole, ReadersAreLate
  <1>0. UNCHANGED <<state, cell, arg>> /\ \A s \in Setter : pc'[s] = pc[s]
    BY DEF WaitStep, Register, Park, LoadInitialized, Wake, ReadValue, CancelWait
  <1>1. SetOnce' /\ StateFollowsSetter' /\ InitializedIsWhole'
    BY <1>0
  <1>2. ReadersAreLate'
    BY <1>0 DEF WaitStep, Register, Park, LoadInitialized, Wake, ReadValue, CancelWait
  <1> QED
    BY <1>1, <1>2

\* The invariant is inductive.
THEOREM CellInvariance == Spec => []CellInv
  <1>1. CellInv /\ [Next]_vars => CellInv'
    <2> SUFFICES ASSUME CellInv, [Next]_vars PROVE CellInv'
      OBVIOUS
    <2>1. CASE UNCHANGED vars
      BY <2>1 DEF vars, CellInv, TypeOK, SetterPc, WaiterPc, SetOnce, InSet,
         StateFollowsSetter, InitializedIsWhole, ReadersAreLate
    <2>2. CASE Next
      BY <2>2, StepTypes, StepSetter, StepWaiter DEF Next, CellInv
    <2> QED
      BY <2>1, <2>2
  <1> QED
    BY <1>1, InitCell, PTL DEF Spec

\* No two calls of BarrierCell::set get past the compare_exchange.
THEOREM SetSucceedsOnce == Spec => []SetOnce
  BY CellInvariance, PTL DEF CellInv

\* BarrierCell::wait returns the whole value of the successful call of set.
THEOREM WaitReturnsValue == Spec => []ReadsWhatWasSet
  <1>1. CellInv => ReadsWhatWasSet
    BY DEF CellInv, ReadersAreLate, InitializedIsWhole, ReadsWhatWasSet, InSet, TypeOK
  <1> QED
    BY <1>1, CellInvariance, PTL
=============================================================================
