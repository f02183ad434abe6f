-------------------------------- MODULE Ports --------------------------------
(***************************************************************************)
(* Port declarations "name", "TAG:name", "TAG:index:name" and the table a  *)
(* node makes of them.                                                     *)
(*                                                                         *)
(* A name is a sequence of labels: <<"a">> is the name "a", <<"d", "a">>   *)
(* the name "d/a" that expansion gives to "a" inside the instance "d".  A  *)
(* declaration that does not parse has the empty name.                     *)
(***************************************************************************)
EXTENDS Integers, Sequences, FiniteSets

\* The index of a declaration that leaves it to the order of declarations.
Auto == -1
NoName == <<>>

Port(tag, index, name) == [tag |-> tag, index |-> index, name |-> name]
Parses(decl) == decl.name # NoName

Names(decls) == {decls[i].name : i \in DOMAIN decls}

\* The index of the i-th declaration within its tag.
IndexOf(decls, i) ==
    IF decls[i].index # Auto THEN decls[i].index
    ELSE Cardinality({j \in 1 .. i - 1 : decls[j].tag = decls[i].tag /\ decls[j].index = Auto})

Tagged(decls, tag) == {i \in DOMAIN decls : decls[i].tag = tag}

\* PortTable::build succeeds.  No tag has two ports of one index exactly when
\* the indices of its n ports are 0 .. n-1.
IsPortTable(decls) ==
    /\ \A i \in DOMAIN decls : Parses(decls[i])
    /\ Cardinality(Names(decls)) = Len(decls)
    /\ \A i \in DOMAIN decls :
          LET same == Tagged(decls, decls[i].tag)
          IN  {IndexOf(decls, j) : j \in same} = 0 .. Cardinality(same) - 1

\* id_by_tag: the flat number of each (tag, index).
TagTable(decls) ==
    [key \in {<<decls[i].tag, IndexOf(decls, i)>> : i \in DOMAIN decls} |->
        CHOOSE i \in DOMAIN decls : key = <<decls[i].tag, IndexOf(decls, i)>>]
=============================================================================
