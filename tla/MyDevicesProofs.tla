--------------------------- MODULE MyDevicesProofs ---------------------------
(***************************************************************************)
(* Proofs about the device registry of src/src/mydevices.c, for every list *)
(* size, queue size, set of devices and set of frames: the list never     *)
(* holds a device twice and never grows past ARRAY_SIZE(devices.list).     *)
(*                                                                         *)
(* TypeOK /\ UniqueDevices is inductive as it stands.  The argument rests *)
(* on one fact about mydevice_get: a device it does not find is not in    *)
(* the list (NotFoundNotListed), so mydevice_get_or_register appends only *)
(* a device that is new, and only when mydevice_register has room.        *)
(***************************************************************************)
EXTENDS MyDevices, TLAPS

IInv == TypeOK /\ UniqueDevices

-----------------------------------------------------------------------------
(* What Append returns.                                                    *)
LEMMA AppendFacts ==
    ASSUME NEW S, NEW s \in Seq(S), NEW e \in S
    PROVE  /\ Append(s, e) \in Seq(S)
           /\ Len(Append(s, e)) = Len(s) + 1
           /\ \A i \in 1 .. Len(s) : Append(s, e)[i] = s[i]
           /\ Append(s, e)[Len(s) + 1] = e
OBVIOUS

(* Every device a producer registers is a Device.                         *)
LEMMA DevicesAreDevices ==
    /\ \A a \in BleAddrs : XiaomiDev(a) \in Device
    /\ \A d \in CanIds : CaniotDev(d) \in Device
    /\ DieDev \in Device
BY DEF Device

(* mydevice_get: a device that is not found is in no entry of the list.   *)
(* For a BLE or CAN device an equal entry has a valid address with the     *)
(* same medium and address; for the die sensor it has the same type.      *)
LEMMA NotFoundNotListed ==
    ASSUME NEW dev \in Device, ~Found(dev)
    PROVE  \A i \in 1 .. Len(list) : list[i] # dev
<1> SUFFICES ASSUME NEW i \in 1 .. Len(list), list[i] = dev
             PROVE  FALSE
    OBVIOUS
<1>1. CASE AddrValid(dev)
      BY <1>1 DEF Found
<1>2. CASE ~AddrValid(dev)
      BY <1>2 DEF Found
<1> QED BY <1>1, <1>2

(* mydevice_get_or_register, when it succeeds, keeps the list well typed, *)
(* within its bound and free of duplicates.                                *)
LEMMA GetOrRegisterOK ==
    ASSUME IInv, NEW dev \in Device, Registers(dev)
    PROVE  LET l2 == GetOrRegister(dev) IN
           /\ l2 \in Seq(Device)
           /\ Len(l2) <= LIST_SIZE
           /\ \A i, j \in 1 .. Len(l2) : i # j => l2[i] # l2[j]
<1>1. CASE Found(dev)
      BY <1>1 DEF GetOrRegister, IInv, TypeOK, UniqueDevices
<1>2. CASE ~Found(dev)
  <2>1. GetOrRegister(dev) = Append(list, dev)
        BY <1>2 DEF GetOrRegister
  <2>2. Len(list) < LIST_SIZE
        BY <1>2 DEF Registers
  <2>3. \A i \in 1 .. Len(list) : list[i] # dev
        BY <1>2, NotFoundNotListed
  <2>4. list \in Seq(Device) /\ LIST_SIZE \in Nat
        BY DevicesAssumption DEF IInv, TypeOK
  <2> QED BY <2>1, <2>2, <2>3, <2>4, AppendFacts DEF IInv, UniqueDevices
<1> QED BY <1>1, <1>2

-----------------------------------------------------------------------------
(* The initial state satisfies the invariant.                              *)
LEMMA InitIInv == Init => IInv
<1> SUFFICES ASSUME Init PROVE IInv
    OBVIOUS
<1>1. list \in Seq(Device) /\ Len(list) <= LIST_SIZE
      BY DevicesAssumption DEF Init
<1>2. msgq \in Seq(Frames) /\ Len(msgq) <= QUEUE_SIZE
      BY DevicesAssumption DEF Init
<1>3. work \in {"idle", "waiting", "running", "frame"} /\ attached \in BOOLEAN
      BY DEF Init
<1>5. cur \in Seq(BleAddrs) /\ ri \in Nat \ {0} /\ dropped \subseteq BleAddrs
      BY DEF Init
<1>6. delivered \in 0 .. MaxFrames
      BY DevicesAssumption DEF Init
<1>4. UniqueDevices
      BY DEF Init, UniqueDevices
<1> QED BY <1>1, <1>2, <1>3, <1>4, <1>5, <1>6 DEF IInv, TypeOK

(* The steps that leave the list alone keep UniqueDevices.                 *)
LEMMA UniqueFrame ==
    ASSUME UniqueDevices, list' = list
    PROVE  UniqueDevices'
BY DEF UniqueDevices

(* mydevice_init and the IPC driver's put keep the invariant.             *)
LEMMA InitIpcIInv ==
    ASSUME IInv, MydeviceInit \/ \E f \in Frames : IpcReceive(f)
    PROVE  IInv'
<1>1. CASE MydeviceInit
      BY <1>1, UniqueFrame DEF MydeviceInit, IInv, TypeOK
<1>2. ASSUME NEW f \in Frames, IpcReceive(f)
      PROVE  IInv'
  <2>1. list' = list
        BY <1>2 DEF IpcReceive
  <2>2. msgq' \in Seq(Frames) /\ Len(msgq') <= QUEUE_SIZE
    <3>1. msgq \in Seq(Frames) /\ Len(msgq) <= QUEUE_SIZE
          BY DEF IInv, TypeOK
    <3>2. CASE Len(msgq) < QUEUE_SIZE
          <4>1. msgq' = Append(msgq, f)
                BY <1>2, <3>2 DEF IpcReceive
          <4> QED BY <3>1, <3>2, <4>1, DevicesAssumption
    <3>3. CASE ~(Len(msgq) < QUEUE_SIZE)
          BY <1>2, <3>1, <3>3 DEF IpcReceive
    <3> QED BY <3>2, <3>3
  <2>3. delivered' \in 0 .. MaxFrames
        BY <1>2, DevicesAssumption DEF IpcReceive, IInv, TypeOK
  <2> QED BY <1>2, <2>1, <2>2, <2>3, UniqueFrame DEF IpcReceive, IInv, TypeOK
<1> QED BY <1>1, <1>2

(* The steps of ipc_work_handler around the frame loop keep it.           *)
LEMMA WorkIInv ==
    ASSUME IInv, WorkTrigger \/ WorkGet \/ FrameEnd \/ WorkDone
    PROVE  IInv'
<1>1. CASE WorkTrigger
      BY <1>1, UniqueFrame DEF WorkTrigger, IInv, TypeOK
<1>2. CASE WorkGet
  <2>1. msgq \in Seq(Frames) /\ msgq # <<>>
        BY <1>2 DEF WorkGet, IInv, TypeOK
  <2>2. Head(msgq) \in Seq(BleAddrs)
        BY <2>1, DevicesAssumption
  <2>3. Tail(msgq) \in Seq(Frames) /\ Len(Tail(msgq)) <= QUEUE_SIZE
        BY <2>1, DevicesAssumption DEF IInv, TypeOK
  <2> QED BY <1>2, <2>2, <2>3, UniqueFrame DEF WorkGet, IInv, TypeOK
<1>3. CASE FrameEnd
      BY <1>3, UniqueFrame DEF FrameEnd, IInv, TypeOK
<1>4. CASE WorkDone
      BY <1>4, UniqueFrame DEF WorkDone, IInv, TypeOK
<1> QED BY <1>1, <1>2, <1>3, <1>4

(* One record of the frame loop keeps it: the list changes only through   *)
(* a successful mydevice_get_or_register, and the dropped records are     *)
(* addresses of the frame.                                                 *)
LEMMA FrameRecordIInv ==
    ASSUME IInv, FrameRecord
    PROVE  IInv'
<1> DEFINE dev == XiaomiDev(cur[ri])
<1>1. cur[ri] \in BleAddrs /\ ri \in 1 .. Len(cur)
      BY DEF FrameRecord, IInv, TypeOK
<1>2. dev \in Device
      BY <1>1, DevicesAreDevices
<1>3. CASE Registers(dev)
  <2>1. list' = GetOrRegister(dev) /\ ri' = ri + 1
        BY <1>3 DEF FrameRecord
  <2>2. /\ list' \in Seq(Device) /\ Len(list') <= LIST_SIZE
        /\ UniqueDevices'
        BY <1>2, <1>3, <2>1, GetOrRegisterOK DEF UniqueDevices
  <2> QED BY <1>3, <2>1, <2>2 DEF FrameRecord, IInv, TypeOK
<1>4. CASE ~Registers(dev)
  <2>1. list' = list /\ ri' = ri
        BY <1>4 DEF FrameRecord
  <2>2. dropped' \subseteq BleAddrs
        BY <1>4 DEF FrameRecord, IInv, TypeOK
  <2> QED BY <1>4, <2>1, <2>2, UniqueFrame DEF FrameRecord, IInv, TypeOK
<1> QED BY <1>3, <1>4

(* CAN telemetry and the die temperature keep it.                         *)
LEMMA RegisterIInv ==
    ASSUME IInv, NEW dev \in Device, Register(dev)
    PROVE  IInv'
<1>1. CASE Registers(dev)
  <2>1. list' = GetOrRegister(dev)
        BY <1>1 DEF Register
  <2>2. /\ list' \in Seq(Device) /\ Len(list') <= LIST_SIZE
        /\ UniqueDevices'
        BY <1>1, <2>1, GetOrRegisterOK DEF UniqueDevices
  <2> QED BY <2>2 DEF Register, IInv, TypeOK
<1>2. CASE ~Registers(dev)
      BY <1>2, UniqueFrame DEF Register, IInv, TypeOK
<1> QED BY <1>1, <1>2

(* Every step, and every stutter, keeps the invariant.                    *)
LEMMA NextIInv == IInv /\ [Next]_vars => IInv'
<1> SUFFICES ASSUME IInv, [Next]_vars PROVE IInv'
    OBVIOUS
<1>1. CASE MydeviceInit \/ \E f \in Frames : IpcReceive(f)
      BY <1>1, InitIpcIInv
<1>2. CASE WorkTrigger \/ WorkGet \/ FrameEnd \/ WorkDone
      BY <1>2, WorkIInv
<1>3. CASE FrameRecord
      BY <1>3, FrameRecordIInv
<1>4. ASSUME NEW d \in CanIds, CaniotTelemetry(d)
      PROVE  IInv'
      BY <1>4, DevicesAreDevices, RegisterIInv DEF CaniotTelemetry
<1>5. CASE DieTemperature
      BY <1>5, DevicesAreDevices, RegisterIInv DEF DieTemperature
<1>6. CASE UNCHANGED vars
      BY <1>6 DEF vars, IInv, TypeOK, UniqueDevices
<1> QED BY <1>1, <1>2, <1>3, <1>4, <1>5, <1>6 DEF Next

-----------------------------------------------------------------------------
(* The registry is well typed in every reachable state, and the list of   *)
(* mydevice_register never holds more than ARRAY_SIZE(devices.list)       *)
(* entries, whatever the producers race to register.                      *)
THEOREM RegistryTypeCorrect == Spec => []TypeOK
<1>1. Spec => []IInv
      BY InitIInv, NextIInv, PTL DEF Spec
<1> QED BY <1>1, PTL DEF IInv

(* No device is ever listed twice, for every list size: the frame loop,   *)
(* CAN telemetry and the die temperature each look the device up and      *)
(* register it under devices.mutex, and mydevice_register appends only    *)
(* what mydevice_get did not find.                                         *)
THEOREM RegistryUnique == Spec => []UniqueDevices
<1>1. Spec => []IInv
      BY InitIInv, NextIInv, PTL DEF Spec
<1> QED BY <1>1, PTL DEF IInv

=============================================================================
