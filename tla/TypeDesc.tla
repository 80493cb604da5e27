------------------------------ MODULE TypeDesc ------------------------------
(***************************************************************************)
(* The type-descriptor resolver (crate::type_desc, not part of the source  *)
(* tree studied here: modelled from the spec, section 4.1).  It maps the   *)
(* static type of a pointer and the permission and flag bits the analysis  *)
(* inferred for it to a TypeDesc: an ownership kind and a quantity.  The   *)
(* pointee type is abstracted away: the model has one pointee type, so the *)
(* pointee comparison of emit_cast_desc_desc always succeeds.              *)
(***************************************************************************)

\* PermissionSet bits that the resolver reads.
PermBits == {"WRITE", "UNIQUE", "OFFSET_ADD", "OFFSET_SUB"}

\* FlagSet bits; CELL marks a pointer whose target must become a Cell.
FlagBits == {"CELL"}

Ownership == {"Raw", "Imm", "Cell", "Mut"}

\* Array is a variant of the enum that perms_to_desc never returns.
Quantity == {"Single", "Slice", "OffsetPtr", "Array"}

TypeDescs == [own : Ownership, qty : Quantity]

\* The static type of a MIR value, reduced to its kind: a raw pointer, a
\* safe reference, or a non-pointer.
TyKinds == {"raw", "ref", "int"}

\* Quantity from the offset permissions: a pointer that is offset backwards
\* needs an OffsetPtr, one that is only offset forwards a slice.
QtyOfPerms(perms) ==
    IF "OFFSET_SUB" \in perms THEN "OffsetPtr"
    ELSE IF "OFFSET_ADD" \in perms THEN "Slice"
    ELSE "Single"

\* Ownership of a pointer: the CELL flag dominates, then WRITE and UNIQUE
\* together give a mutable reference, anything else an immutable one.
OwnOfPerms(perms, flags) ==
    IF "CELL" \in flags THEN "Cell"
    ELSE IF {"WRITE", "UNIQUE"} \subseteq perms THEN "Mut"
    ELSE "Imm"

\* type_desc::perms_to_desc: a non-pointer type passes through as Raw.
PermsToDesc(ty, perms, flags) ==
    IF ty = "int"
    THEN [own |-> "Raw", qty |-> "Single"]
    ELSE [own |-> OwnOfPerms(perms, flags), qty |-> QtyOfPerms(perms)]

\* type_desc::local_perms_to_desc: the descriptor of the pointer to a local
\* of type local_ty (its address); the address is a pointer whatever the
\* local's own type is.
LocalPermsToDesc(localTy, perms, flags) ==
    [own |-> OwnOfPerms(perms, flags), qty |-> QtyOfPerms(perms)]

=============================================================================
