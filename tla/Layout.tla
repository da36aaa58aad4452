-------------------------------- MODULE Layout --------------------------------
(***************************************************************************)
(* Addresses of a device's variables and the buffer behind them.            *)
(*                                                                          *)
(* The loop of variable_offsets (tstlan/configs/schemas.py) takes one       *)
(* variable per step and derives its address from the previous one; the     *)
(* form of the frontend repeats the loop in TypeScript (lib/configs.ts).    *)
(* build_scheme then binds the addresses to the byte buffer of the device,  *)
(* which NetVarAccessor reads and writes.                                   *)
(*                                                                          *)
(* Slip... definitions are mistakes the properties tell from the model.     *)
(***************************************************************************)
EXTENDS Integers, Sequences

CONSTANTS
    CTypes,    \* the C types of the variables
    ByteSize,  \* the size of a value of each type, in bytes
    Bit,       \* the type that is packed eight to a byte
    MaxVars,   \* bound: the variables of one config
    NoBit      \* no bit number: the variable is addressed by bytes (None)

ASSUME LayoutAssumption ==
    /\ ByteSize \in [CTypes -> Nat \ {0}]
    /\ Bit \in CTypes => ByteSize[Bit] = 1
    /\ MaxVars \in Nat
    /\ NoBit \notin Nat

VARIABLES
    ctypes,   \* the types of the variables taken so far, in order
    offsets,  \* the addresses variable_offsets gave them
    form,     \* the addresses the frontend's form gave them
    bound,    \* the scheme is built: the buffer is in use
    ones,     \* the bits of the buffer that are set
    values    \* the value last written to each variable

vars == <<ctypes, offsets, form, bound, ones, values>>

Offset == [byte: Nat, bit: (0..7) \cup {NoBit}]

First(ctype) == [byte |-> 0, bit |-> IF ctype = Bit THEN 0 ELSE NoBit]

(* The size of the variable itself where that of the previous one is meant. *)
SlipSize(prev, prevType, ctype) ==
    IF prevType = Bit /\ ctype = Bit
    THEN IF prev.bit >= 7 THEN [byte |-> prev.byte + 1, bit |-> 0]
         ELSE [byte |-> prev.byte, bit |-> prev.bit + 1]
    ELSE [byte |-> prev.byte + ByteSize[ctype],
          bit |-> IF ctype = Bit THEN 0 ELSE NoBit]

(* The address after prev, of a variable of type prevType. *)
After(prev, prevType, ctype) ==
    IF prevType = Bit /\ ctype = Bit
    THEN IF prev.bit >= 7 THEN [byte |-> prev.byte + 1, bit |-> 0]
         ELSE [byte |-> prev.byte, bit |-> prev.bit + 1]
    ELSE [byte |-> prev.byte + ByteSize[prevType],
          bit |-> IF ctype = Bit THEN 0 ELSE NoBit]

(* The same in the frontend, where a missing bit number counts as zero.     *)
BitOrZero(offset) == IF offset.bit = NoBit THEN 0 ELSE offset.bit

(* Bits of one byte and of the next are told apart by "bit" alone. *)
SlipFormAfter(prev, prevType, ctype) ==
    IF ctype = Bit /\ prev.bit # NoBit
    THEN [byte |-> prev.byte + BitOrZero(prev) \div 7,
          bit |-> (BitOrZero(prev) + 1) % 7]
    ELSE [byte |-> prev.byte + ByteSize[prevType],
          bit |-> IF ctype = Bit THEN 0 ELSE NoBit]

FormAfter(prev, prevType, ctype) ==
    IF prevType = Bit /\ ctype = Bit
    THEN IF BitOrZero(prev) >= 7
         THEN [byte |-> prev.byte + 1, bit |-> 0]
         ELSE [byte |-> prev.byte, bit |-> BitOrZero(prev) + 1]
    ELSE [byte |-> prev.byte + ByteSize[prevType],
          bit |-> IF ctype = Bit THEN 0 ELSE NoBit]

----------------------------------------------------------------------------
(* Bits are numbered through the buffer, eight to a byte.                   *)

Start(k) == 8 * offsets[k].byte + BitOrZero(offsets[k])

Width(k) == IF ctypes[k] = Bit THEN 1 ELSE 8 * ByteSize[ctypes[k]]

(* The bits that get() reads and set() writes. *)
Region(k) == Start(k)..(Start(k) + Width(k) - 1)

Init ==
    /\ ctypes = <<>>
    /\ offsets = <<>>
    /\ form = <<>>
    /\ bound = FALSE
    /\ ones = {}
    /\ values = <<>>

(* One turn of both loops. *)
TakeVariable(ctype) ==
    LET n == Len(ctypes) IN
    /\ ~bound
    /\ n < MaxVars
    /\ ctypes' = Append(ctypes, ctype)
    /\ offsets' = Append(offsets,
          IF n = 0 THEN First(ctype) ELSE After(offsets[n], ctypes[n], ctype))
    /\ form' = Append(form,
          IF n = 0 THEN First(ctype) ELSE FormAfter(form[n], ctypes[n], ctype))
    /\ UNCHANGED <<bound, ones, values>>

(* build_scheme on a fresh buffer; a buffer grows with zeros. *)
Bind ==
    /\ ~bound
    /\ bound' = TRUE
    /\ values' = [k \in DOMAIN ctypes |-> 0]
    /\ UNCHANGED <<ctypes, offsets, form, ones>>

(* A whole byte where one bit is meant. *)
SlipStore(k, value) ==
    IF value = 1
    THEN ones \cup (8 * offsets[k].byte .. 8 * offsets[k].byte + 7)
    ELSE ones \ Region(k)

(* write_bytes replaces the bytes, write_bit masks one bit in.  A value is  *)
(* all ones or all zeros in its region: the most another could disturb.     *)
Store(k, value) == IF value = 1 THEN ones \cup Region(k) ELSE ones \ Region(k)

Set(k, value) ==
    /\ bound
    /\ ones' = Store(k, value)
    /\ values' = [values EXCEPT ![k] = value]
    /\ UNCHANGED <<ctypes, offsets, form, bound>>

Next ==
    \/ \E ctype \in CTypes : TakeVariable(ctype)
    \/ Bind
    \/ \E k \in DOMAIN ctypes, value \in {0, 1} : Set(k, value)

Spec == Init /\ [][Next]_vars

----------------------------------------------------------------------------
TypeOK ==
    /\ ctypes \in Seq(CTypes)
    /\ Len(ctypes) <= MaxVars
    /\ offsets \in Seq(Offset)
    /\ Len(offsets) = Len(ctypes)
    /\ form \in Seq(Offset)
    /\ Len(form) = Len(ctypes)
    /\ bound \in BOOLEAN
    /\ ones \subseteq Nat
    /\ bound => values \in [DOMAIN ctypes -> {0, 1}]

(* No two variables share a bit of the buffer, wherever bits and bytes      *)
(* alternate.                                                               *)
Disjoint ==
    \A j, k \in DOMAIN ctypes : j < k => Start(j) + Width(j) <= Start(k)

(* The addresses are those of a packed device layout: a byte variable       *)
(* starts in the byte after the previous variable's last one, and a run of  *)
(* bits fills every byte before it opens the next.                          *)
Packed ==
    \A k \in DOMAIN ctypes : k > 1 =>
        LET free == Start(k - 1) + Width(k - 1) IN
        Start(k) = IF ctypes[k] = Bit /\ ctypes[k - 1] = Bit
                   THEN free ELSE 8 * ((free + 7) \div 8)

(* The frontend shows the addresses the backend uses.                       *)
FormAgrees == form = offsets

(* A variable reads back what was last written to it, whatever was written  *)
(* to its neighbours since.                                                 *)
ReadsBack ==
    bound => \A k \in DOMAIN ctypes :
        IF values[k] = 1 THEN Region(k) \subseteq ones ELSE Region(k) \cap ones = {}

=============================================================================
