------------------------------ MODULE Descriptors ------------------------------
(***************************************************************************)
(* The repair of the descriptors a Schema Registry hands out               *)
(* (packages/kafka/src/descriptors.ts): a field that names a message or an *)
(* enum may lack the type that says which of the two it is.                *)
(*                                                                         *)
(* A full name is the sequence of its parts.  A file is [package, messages, *)
(* enums, exts]; a message [name, fields, exts, nested, enums]; a field    *)
(* [names, type], where names is <<>> if it names no type and    *)
(* type is "unset" where the registry left it out.                         *)
(***************************************************************************)
EXTENDS Sequences, TLC, SequencesExt, FiniteSetsExt

CONSTANT WellKnown  \* full name -> kind, of google/protobuf/*.proto

RECURSIVE CollectFromMessage(_, _)

\* collectFromMessage(): what a message declares, itself first.
CollectFromMessage(msg, scope) ==
    LET self == Append(scope, msg.name)
    IN  FoldSet(LAMBDA m, kinds : CollectFromMessage(m, self) @@ kinds, <<>>, msg.nested)
            @@ [n \in {Append(self, e) : e \in msg.enums} |-> "enum"]
            @@ (self :> "message")

\* One file's part of collectTypeKinds().
Declared(file) ==
    FoldSet(LAMBDA m, kinds : CollectFromMessage(m, file.package) @@ kinds,
            [n \in {Append(file.package, e) : e \in file.enums} |-> "enum"],
            file.messages)

\* collectTypeKinds(): a later file wins over an earlier one, each over the
\* well-known types.
CollectTypeKinds(files) ==
    FoldLeft(LAMBDA kinds, file : Declared(file) @@ kinds, WellKnown, files)

Resolved == {"message", "enum", "group"}

\* repairField(): a relative name is looked up as if it were absolute.
Settled(field) == field.names = <<>> \/ field.type \in Resolved

Unresolvable(field, kinds) == ~Settled(field) /\ field.names \notin DOMAIN kinds

RepairField(field, kinds) ==
    IF Settled(field) THEN field ELSE [field EXCEPT !.type = kinds[field.names]]

RECURSIVE FieldsOf(_), RepairMessage(_, _)

\* Every field and extension a message holds, at any depth.
FieldsOf(msg) == msg.fields \cup msg.exts \cup UNION {FieldsOf(m) : m \in msg.nested}

\* Mutant: the extensions in a message are forgotten.
RepairFieldsOnly(msg, kinds) ==
    [msg EXCEPT !.fields = {RepairField(f, kinds) : f \in @}]

\* repairMessage().
RepairMessage(msg, kinds) ==
    [msg EXCEPT !.fields = {RepairField(f, kinds) : f \in @},
                !.exts = {RepairField(f, kinds) : f \in @},
                !.nested = {RepairMessage(m, kinds) : m \in @}]

\* repairFileDescriptor().
RepairFile(file, kinds) ==
    [file EXCEPT !.messages = {RepairMessage(m, kinds) : m \in @},
                 !.exts = {RepairField(f, kinds) : f \in @}]

FileFields(file) == file.exts \cup UNION {FieldsOf(m) : m \in file.messages}

\* repairDescriptorSet(): the main file first, its dependencies after it, or the
\* error of the first field that cannot be resolved.
RepairSet(files) ==
    LET kinds == CollectTypeKinds(files)
        lost == \E i \in DOMAIN files :
                    \E f \in FileFields(files[i]) : Unresolvable(f, kinds)
    IN  IF lost THEN [error |-> "cannot resolve"]
        ELSE [files |-> [i \in DOMAIN files |-> RepairFile(files[i], kinds)]]
=============================================================================
