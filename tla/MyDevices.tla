------------------------------ MODULE MyDevices ------------------------------
(***************************************************************************)
(* The device registry of src/src/mydevices.c: a list of at most          *)
(* ARRAY_SIZE(devices.list) devices under devices.mutex, fed by three      *)
(* producers:                                                             *)
(*   - the IPC work item (ipc_work_handler), which drains a k_msgq of BLE *)
(*     Xiaomi frames and registers every record of each frame, holding   *)
(*     the mutex for the whole frame;                                     *)
(*   - CAN telemetry (mydevice_register_caniot_telemetry);                 *)
(*   - the die temperature (mydevice_register_die_temperature), whose     *)
(*     device has no address and is looked up by type.                   *)
(* A call of the last two runs wholly under the mutex and is one action;  *)
(* the frame loop is one action per record, and while it runs the mutex  *)
(* keeps the other producers out.                                         *)
(*                                                                         *)
(* Measurement values and timestamps are not modelled: a device is its    *)
(* medium, its address and its type.  The UART IPC driver that fills the  *)
(* k_msgq is not under src/; it puts a frame if the queue has room.       *)
(***************************************************************************)
EXTENDS Naturals, Sequences

CONSTANTS
    BleAddrs,     \* BLE addresses of Xiaomi sensors
    CanIds,       \* CANIOT device ids
    LIST_SIZE,    \* ARRAY_SIZE(devices.list), 20 in the code
    QUEUE_SIZE,   \* max_msgs of ipc_ble_msgq, 1 in the code
    Frames,       \* the frames the IPC driver may deliver (sequences of addresses)
    MaxFrames     \* bound: frames the IPC driver delivers

ASSUME DevicesAssumption ==
    /\ LIST_SIZE \in Nat /\ QUEUE_SIZE \in Nat /\ MaxFrames \in Nat
    /\ BleAddrs \cap CanIds = {}
    /\ Frames \subseteq Seq(BleAddrs)

NoAddr == "noaddr"    \* the address of a MYDEVICE_MEDIUM_TYPE_NONE device

(* The devices each producer registers.                                    *)
XiaomiDev(a) == [medium |-> "BLE", addr |-> a, type |-> "XIAOMI_MIJIA"]
CaniotDev(d) == [medium |-> "CAN", addr |-> d, type |-> "CANIOT"]
DieDev == [medium |-> "NONE", addr |-> NoAddr, type |-> "NUCLEO_F429ZI"]

Device == {XiaomiDev(a) : a \in BleAddrs} \cup {CaniotDev(d) : d \in CanIds}
              \cup {DieDev}

VARIABLES
    list,      \* devices.list[0 .. count-1]
    msgq,      \* ipc_ble_msgq
    work,      \* the IPC work item: "idle" (not submitted), "waiting"
               \* (submitted to the poll), "running" (in the drain loop),
               \* "frame" (in the frame loop)
    cur,       \* the frame being registered
    ri,        \* the index of its next record
    delivered, \* frames the IPC driver has received
    attached,  \* ipc_attach_rx_msgq has been called
    dropped    \* addresses of listed devices whose record of the last frame
               \* was not registered

vars == <<list, msgq, work, cur, ri, delivered, attached, dropped>>

-----------------------------------------------------------------------------
(* phys_addr_valid: the medium is BLE or CAN.                              *)
AddrValid(dev) == dev.medium \in {"BLE", "CAN"}

(* mydevice_get: by address (phys_addr_cmp compares medium and address)  *)
(* when it is valid, else the first device of the type.                  *)
Found(dev) ==
    \E i \in 1 .. Len(list) :
        IF AddrValid(dev)
        THEN AddrValid(list[i]) /\ list[i].medium = dev.medium /\ list[i].addr = dev.addr
        ELSE list[i].type = dev.type

(* Faulty variant of Registers: mydevice_register without the count check. *)
RegistersNoBound(dev) == TRUE

(* mydevice_get_or_register succeeds: the device is found, or the list    *)
(* has room and mydevice_register appends it.                             *)
Registers(dev) == Found(dev) \/ Len(list) < LIST_SIZE

(* Faulty variant of GetOrRegister: mydevice_register without the lookup. *)
GetOrRegisterNoLookup(dev) == Append(list, dev)

(* The list after mydevice_get_or_register(dev).                          *)
GetOrRegister(dev) == IF Found(dev) THEN list ELSE Append(list, dev)

Init ==
    /\ list = <<>> /\ msgq = <<>> /\ work = "idle"
    /\ cur = <<>> /\ ri = 1 /\ delivered = 0 /\ attached = FALSE /\ dropped = {}

-----------------------------------------------------------------------------
(* mydevice_init: once net_time_wait_synced(K_FOREVER) returns, the msgq  *)
(* is attached to the IPC driver and the work item submitted.             *)
MydeviceInit ==
    /\ ~attached
    /\ attached' = TRUE /\ work' = "waiting"
    /\ UNCHANGED <<list, msgq, cur, ri, delivered, dropped>>

(* The UART IPC driver receives frame f and puts it in ipc_ble_msgq with  *)
(* K_NO_WAIT: a frame that finds the queue full is lost.                  *)
IpcReceive(f) ==
    /\ attached /\ delivered < MaxFrames
    /\ msgq' = IF Len(msgq) < QUEUE_SIZE THEN Append(msgq, f) ELSE msgq
    /\ delivered' = delivered + 1
    /\ UNCHANGED <<list, work, cur, ri, attached, dropped>>

(* K_POLL_TYPE_MSGQ_DATA_AVAILABLE: the submitted work item runs once the *)
(* queue holds a frame (k_work_poll_submit also checks it on submission). *)
WorkTrigger ==
    /\ work = "waiting" /\ msgq # <<>>
    /\ work' = "running"
    /\ UNCHANGED <<list, msgq, cur, ri, delivered, attached, dropped>>

(* ipc_work_handler: k_msgq_get succeeds, and                            *)
(* mydevices_register_ble_xiaomi_dataframe locks the mutex.               *)
WorkGet ==
    /\ work = "running" /\ msgq # <<>>
    /\ cur' = Head(msgq) /\ msgq' = Tail(msgq)
    /\ ri' = 1 /\ work' = "frame" /\ dropped' = {}
    /\ UNCHANGED <<list, delivered, attached>>

(* One iteration of the record loop: handle_ble_xiaomi_record.  When the  *)
(* device can be neither found nor registered it returns -ENOMEM, and the *)
(* loop `goto exit`s: the mutex is unlocked and the rest of the frame is  *)
(* not looked at.                                                          *)
FrameRecord ==
    LET dev == XiaomiDev(cur[ri]) IN
    /\ work = "frame" /\ ri <= Len(cur)
    /\ IF Registers(dev)
       THEN /\ list' = GetOrRegister(dev) /\ ri' = ri + 1
            /\ UNCHANGED <<work, dropped>>
       ELSE /\ work' = "running"
            /\ dropped' = {cur[k] : k \in {k \in ri + 1 .. Len(cur) :
                                            Found(XiaomiDev(cur[k]))}}
            /\ UNCHANGED <<list, ri>>
    /\ UNCHANGED <<msgq, cur, delivered, attached>>

(* The loop has registered every record: unlock, return 0.               *)
FrameEnd ==
    /\ work = "frame" /\ ri > Len(cur)
    /\ work' = "running"
    /\ UNCHANGED <<list, msgq, cur, ri, delivered, attached, dropped>>

(* Faulty variant of WorkDone: the work item is not resubmitted.          *)
WorkDoneNoResubmit ==
    /\ work = "running" /\ msgq = <<>>
    /\ work' = "idle"
    /\ UNCHANGED <<list, msgq, cur, ri, delivered, attached, dropped>>

(* k_msgq_get finds the queue empty: the poll event is reset and the work *)
(* item resubmitted.                                                       *)
WorkDone ==
    /\ work = "running" /\ msgq = <<>>
    /\ work' = "waiting"
    /\ UNCHANGED <<list, msgq, cur, ri, delivered, attached, dropped>>

(* mydevice_register_caniot_telemetry and                                 *)
(* mydevice_register_die_temperature: lock (blocking while the frame loop *)
(* holds the mutex), get or register, unlock; -ENOMEM when the list is     *)
(* full and the device not in it.                                         *)
Register(dev) ==
    /\ work # "frame"
    /\ list' = IF Registers(dev) THEN GetOrRegister(dev) ELSE list
    /\ UNCHANGED <<msgq, work, cur, ri, delivered, attached, dropped>>

CaniotTelemetry(d) == Register(CaniotDev(d))

DieTemperature == Register(DieDev)

Next ==
    \/ MydeviceInit
    \/ \E f \in Frames : IpcReceive(f)
    \/ WorkTrigger \/ WorkGet \/ FrameRecord \/ FrameEnd \/ WorkDone
    \/ \E d \in CanIds : CaniotTelemetry(d)
    \/ DieTemperature

Spec == Init /\ [][Next]_vars

(* The system work queue runs a submitted work item, the kernel submits a *)
(* polled one once its event is ready, and the init thread gets to run.   *)
FairSpec ==
    /\ Spec
    /\ WF_vars(MydeviceInit) /\ WF_vars(WorkTrigger) /\ WF_vars(WorkGet) /\ WF_vars(FrameRecord)
    /\ WF_vars(FrameEnd) /\ WF_vars(WorkDone)

-----------------------------------------------------------------------------
TypeOK ==
    /\ list \in Seq(Device) /\ Len(list) <= LIST_SIZE
    /\ msgq \in Seq(Frames) /\ Len(msgq) <= QUEUE_SIZE
    /\ work \in {"idle", "waiting", "running", "frame"}
    /\ cur \in Seq(BleAddrs) /\ ri \in Nat \ {0}
    /\ delivered \in 0 .. MaxFrames /\ attached \in BOOLEAN
    /\ dropped \subseteq BleAddrs

(* No device is listed twice, whichever producers raced to register it:   *)
(* mydevice_register does not check for duplicates ("addr duplicates are  *)
(* not verified"), so every producer must look the device up first under  *)
(* the same mutex.                                                         *)
UniqueDevices ==
    \A i, j \in 1 .. Len(list) : i # j => list[i] # list[j]

(* A frame's record for a device already in the list always refreshes it, *)
(* even when another record of the frame cannot be registered.             *)
NoRecordDropped == dropped = {}

(* Every frame that reaches the queue is eventually taken out of it: the  *)
(* work item is resubmitted after each drain, so a frame that arrives     *)
(* after the drain loop's last k_msgq_get is not left behind.             *)
QueueEventuallyDrained == msgq # <<>> ~> msgq = <<>>

=============================================================================
