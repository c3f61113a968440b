---------------------------- MODULE TlmmPinctrl ----------------------------
(***************************************************************************)
(* Pin configuration by the SC7180 TLMM (drivers/gpio/qcom-sc7180-tlmm):    *)
(* apply_state validates and resolves a whole pinctrl state and then        *)
(* programs it pad by pad with read-modify-write updates.  A GPIO has a     *)
(* CONFIG register of its own, updated without a lock; the pads of one SDC  *)
(* group share a register, updated under sdc_update_lock, and two of them   *)
(* share their drive bits.  Several drivers may apply states at once.  The  *)
(* value of a field's bits is the caller that programmed them last.         *)
(***************************************************************************)
EXTENDS Naturals, FiniteSets, Sequences, SequencesExt, TLC

CONSTANTS
    Callers,   \* drivers applying one state each
    Gpios,     \* GPIO pads
    QupPins,   \* the GPIOs whose mux offers the named QUP function
    Sdcs,      \* the pads of one SDC group
    SharedDrive, \* those whose drive fields have the same shift: rclk and data
    Unknown,   \* a pin name that named_pin does not resolve
    Requests,  \* the pinctrl states a caller may ask for
    Firmware   \* the value left in every field by firmware

PinctrlAssumption ==
    /\ QupPins \subseteq Gpios
    /\ Gpios \cap Sdcs = {} /\ SharedDrive \subseteq Sdcs
    /\ Unknown \notin Gpios \cup Sdcs
    /\ Firmware \notin Callers

Pads == Gpios \cup Sdcs

Fields == {"function", "pull", "drive", "direction"}

\* The bits of a field, named by the pads that they belong to.
Bits(p, f) == <<IF f = "drive" /\ p \in SharedDrive THEN SharedDrive ELSE {p}, f>>
AllBits == {Bits(p, f) : p \in Pads, f \in Fields}

VARIABLES
    cfg,      \* the configuration registers: the value of all bits
    lock,     \* holder of sdc_update_lock, or Firmware when it is free
    req,      \* the state each caller applies
    pc,       \* "start", "read", "write", "ok" or "err"
    todo,     \* updates left to do
    copy      \* the register value read by the update in progress

vars == <<cfg, lock, req, pc, todo, copy>>

Init ==
    /\ cfg = [b \in AllBits |-> Firmware]
    /\ lock = Firmware
    /\ req \in [Callers -> Requests]
    /\ pc = [c \in Callers |-> "start"]
    /\ todo = [c \in Callers |-> <<>>]
    /\ copy = [c \in Callers |-> <<>>]

-----------------------------------------------------------------------------
\* named_function: "gpio" on every GPIO, the QUP function on its two pins.
NamedFunction(p, f) == f = "gpio" \/ (f = "qup" /\ p \in QupPins)

\* validate_pinctrl_state for one pin.
PinValid(st, p) ==
    /\ p # Unknown
    /\ p \in Gpios => st.function = "none" \/ NamedFunction(p, st.function)
    /\ p \in Sdcs => st.function = "none" /\ ~st.output /\ ~st.input

\* validate_pinctrl_state.
Valid(st) ==
    /\ ~(st.input /\ st.output)
    /\ st.drive # "odd"
    /\ \A p \in Range(st.pins) : PinValid(st, p)

\* The updates apply_state makes to one pad, in order.
Updates(st, p) ==
    LET one(cond, f) == IF cond THEN <<[pad |-> p, field |-> f]>> ELSE <<>>
    IN one(p \in Gpios /\ st.function # "none", "function")
       \o one(st.bias, "pull")
       \o one(st.drive # "none", "drive")
       \o one(p \in Gpios /\ (st.output \/ st.input), "direction")

Program(st) == FlattenSeq([i \in DOMAIN st.pins |-> Updates(st, st.pins[i])])

\* The bits of the register that configures p.
Register(p) == {Bits(q, f) : q \in IF p \in Sdcs THEN Sdcs ELSE {p}, f \in Fields}

-----------------------------------------------------------------------------
\* The loop over the resolved pads.
Finish(c, rest) ==
    /\ todo' = [todo EXCEPT ![c] = rest]
    /\ pc' = [pc EXCEPT ![c] = IF rest = <<>> THEN "ok" ELSE "read"]

\* apply_state: validate, and resolve the complete state.
Resolve(c) ==
    /\ pc[c] = "start"
    /\ \/ /\ Valid(req[c])
          /\ Finish(c, Program(req[c]))
       \/ /\ ~Valid(req[c])
          /\ pc' = [pc EXCEPT ![c] = "err"]
          /\ UNCHANGED todo
    /\ UNCHANGED <<cfg, lock, req, copy>>

\* Mutant: the shared register is updated like a GPIO's.
LockedNever(p) == FALSE

Locked(p) == p \in Sdcs

\* update and update_sdc, first half: read the register.
ReadRegister(c) ==
    /\ pc[c] = "read"
    /\ LET p == Head(todo[c]).pad IN
       /\ Locked(p) => lock = Firmware
       /\ lock' = IF Locked(p) THEN c ELSE lock
       /\ copy' = [copy EXCEPT ![c] = [b \in Register(p) |-> cfg[b]]]
    /\ pc' = [pc EXCEPT ![c] = "write"]
    /\ UNCHANGED <<cfg, req, todo>>

\* The written register: one field changed in the value that was read.
Updated(c, u) == [copy[c] EXCEPT ![Bits(u.pad, u.field)] = c]

\* update and update_sdc, second half: write it back.
WriteRegister(c) ==
    /\ pc[c] = "write"
    /\ LET u == Head(todo[c]) IN
       /\ cfg' = Updated(c, u) @@ cfg
       /\ lock' = IF Locked(u.pad) THEN Firmware ELSE lock
    /\ copy' = [copy EXCEPT ![c] = <<>>]
    /\ Finish(c, Tail(todo[c]))
    /\ UNCHANGED req

Next == \E c \in Callers : Resolve(c) \/ ReadRegister(c) \/ WriteRegister(c)

Spec == Init /\ [][Next]_vars

-----------------------------------------------------------------------------
TypeOK ==
    /\ cfg \in [AllBits -> Callers \cup {Firmware}]
    /\ lock \in Callers \cup {Firmware}
    /\ req \in [Callers -> Requests]
    /\ pc \in [Callers -> {"start", "read", "write", "ok", "err"}]
    /\ \A c \in Callers : pc[c] \in {"read", "write"} <=> todo[c] # <<>>

\* The bits that a caller's state programs.
Asked(c) ==
    {Bits(u.pad, u.field) : u \in UNION {Range(Updates(req[c], p)) : p \in Range(req[c].pins)}}

\* Those that nobody else programs; of a GPIO, those for which nobody else programs
\* anything of that GPIO: only the registers of the SDC pads are updated under a lock.
Named(c) == {Bits(p, f) : p \in Gpios \cap Range(req[c].pins), f \in Fields}
Own(c) == Asked(c) \ UNION {Asked(d) \cup Named(d) : d \in Callers \ {c}}

\* Drivers that configure pads of one SDC register at once compose: what a finished
\* caller programmed stays unless another one's state programs the same bits.  These may
\* belong to another pad: a state that sets the drive of sdc1_rclk sets that of sdc1_data,
\* and nothing in the driver refuses it.  GPIOs compose only pad by pad.
UpdatesSurvive ==
    TypeOK /\ \A c \in Callers : pc[c] = "ok" => \A b \in Own(c) : cfg[b] = c

=============================================================================
