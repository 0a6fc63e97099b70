---------------------------- MODULE NativeProofs ----------------------------
(***************************************************************************)
(* The safety properties of NativeSystem: the client that it bounds is one *)
(* of the clients of AnyClientProofs.                                      *)
(***************************************************************************)
EXTENDS NativeSystem, AnyClientProofs

LEMMA NextConforms == [Next]_vars => [AnyStep]_vars
<1> SUFFICES ASSUME Next PROVE AnyStep \/ UNCHANGED vars
  OBVIOUS
<1>1. CASE Client /\ UNCHANGED reactorVars
  <2>1. ASSUME NEW op \in Calls, Request(op) PROVE AnyCall
    BY <2>1 DEF Request, OrderedOps, AnyCall
  <2>2. ASSUME NEW size \in ReadSizes, ReadRequest(size) PROVE AnyCall
    BY <2>2 DEF ReadRequest, AnyCall
  <2>3. ASSUME NEW size \in WriteSizes, NEW inline \in BOOLEAN,
               Write(size, inline)
        PROVE  AnyCall
    BY <2>3 DEF Write, AnyCall
  <2>4. ASSUME NEW size \in WriteSizes, WritevSnapshot(size, TRUE)
        PROVE  AnyCall
    BY <2>4 DEF WritevSnapshot, AnyCall
  <2>5. ASSUME NEW c \in Credits, ReadCredit(c[1], c[2]) PROVE AnyCall
    BY <2>5 DEF ReadCredit, AnyCall
  <2>6. AnyCall
    BY <1>1, <2>1, <2>2, <2>3, <2>4, <2>5 DEF Client, AnyCall
  <2> QED
    BY <1>1, <2>6 DEF AnyStep
<1>2. CASE Device
  BY <1>2 DEF Device, AnyStep, OfDevice
<1> QED
  BY <1>1, <1>2 DEF Next, AnyStep, Finished

(* Whatever the bounds are, NativeSystem is a native port and a client.    *)
THEOREM NativeConforms == Spec => AnySpec
  BY NextConforms, PTL DEF Spec, AnySpec

(* Everything that AnyClientProofs shows holds of NativeSystem.            *)
THEOREM NativeSafe ==
  Spec => /\ [](TypeOK /\ Admission /\ WireOrder /\ AnswersExact /\ ReleasedAtClose)
          /\ DrainBarrier /\ StopForbidsWrites
<1> USE NativeConforms
<1>1. Spec => []TypeOK /\ []Admission /\ []WireOrder
  BY NativeTypes, AdmissionExact, OrderOnTheWire, PTL
<1>2. Spec => []AnswersExact /\ []ReleasedAtClose
  BY AnswersInOrder, ReleasedBeforeClose, PTL
<1>3. Spec => DrainBarrier /\ StopForbidsWrites
  BY DrainIsBarrier, SilentAfterStop
<1> QED
  BY <1>1, <1>2, <1>3, PTL
=============================================================================
