------------------------------- MODULE Registry -------------------------------
(***************************************************************************)
(* InstrumentRegistry: contracts by identity.  A registry is the sequence  *)
(* of the specifications added to it, and an id is a position in it.       *)
(* Underlyings are named, where the code interns their names.              *)
(***************************************************************************)
EXTENDS Integers, Sequences, FiniteSets

\* key_of: what makes two contracts the same.  Lot and tick size are no part of
\* it, nor the right of what is not an option.
KeyOf(spec) ==
  [underlying |-> spec.underlying, kind |-> spec.kind, expiry |-> spec.expiry,
   strike |-> spec.strike, right |-> IF spec.kind = "Option" THEN spec.right ELSE "None"]

KnownAs(registry, spec) == {id \in DOMAIN registry : KeyOf(registry[id]) = KeyOf(spec)}

IsKnown(registry, spec) == KnownAs(registry, spec) # {}

\* add: a contract that is known keeps what it was first added with.
Added(registry, spec) ==
  IF IsKnown(registry, spec) THEN registry ELSE Append(registry, spec)

\* The id add returns, or a lookup finds.
IdOf(registry, spec) == CHOOSE id \in KnownAs(registry, spec) : TRUE

\* The expiry of what has none.
NoDate == 0
=============================================================================
