------------------------------ MODULE Entities ------------------------------
(***************************************************************************)
(* The collections of clients, categories and transaction types: the class *)
(* template ManagerType<Child> (include/ManagerType.h) over the children   *)
(* of src/ManagedType.cpp.                                                 *)
(*                                                                         *)
(* A collection is a sequence of children; the id of a child is its place  *)
(* in the collection, counted from zero, and is also stored in the child.  *)
(* Every transaction refers to a child by its id alone, so creating,       *)
(* merging, saving and loading must agree on what each id means.           *)
(*                                                                         *)
(* Texts are abstract: two names are the same name when FoldCase maps them *)
(* to the same value (CmpNoCase), and <<w, n>> \in Captures when the       *)
(* definitive keyword w is found in the text n.                            *)
(***************************************************************************)
EXTENDS Naturals, Sequences, FiniteSets

CONSTANTS
  Names,        \* the names a user may give
  Words,        \* the keywords a user may add
  DefaultName,  \* the name of the built-in child at id 0
  FoldCase,     \* a name without its case
  Captures      \* which definitive keyword is found in which name

ASSUME TextAssumption ==
  /\ DefaultName \notin Names
  /\ DOMAIN FoldCase = Names \cup {DefaultName}
  /\ Captures \subseteq Words \X Names

\* constexpr INVALID_ID of CommonTypes.h: an answer that is no child's id.
InvalidId == 65535

(* A child: `sure` are its definitive keywords and `hints` the suggested   *)
(* ones, which the code keeps in the same set behind a leading '~'.        *)
Child == [id : Nat, name : Names \cup {DefaultName},
          sure : SUBSET Words, hints : SUBSET Words]

NewChild(id, name) == [id |-> id, name |-> name, sure |-> {}, hints |-> {}]

DefaultChild == NewChild(0, DefaultName)

Ids(children) == {children[i].id : i \in DOMAIN children}

InPlace(children) == \A i \in DOMAIN children : children[i].id = i - 1

\* The child stored at an id: m_children.at(id).
At(children, id) == children[id + 1]

CheckName(child, name) == FoldCase[child.name] = FoldCase[name]

CheckDefinitiveKeywords(child, name) ==
  \E w \in child.sure : <<w, name>> \in Captures

(* A full-name search: the first child of that very name, or else every    *)
(* child one of whose definitive keywords the name contains.               *)
SearchIdsHighConfidence(children, name) ==
  LET named == {i \in DOMAIN children : CheckName(children[i], name)}
  IN  IF named # {}
        THEN {children[i].id : i \in {j \in named : \A k \in named : j <= k}}
        ELSE {children[i].id : i \in {j \in DOMAIN children :
                                 CheckDefinitiveKeywords(children[j], name)}}

(* Create(): the id it answers, and the collection it leaves behind. A     *)
(* name that already means one child answers that child, one that means    *)
(* several answers InvalidId, and only an unknown name grows the           *)
(* collection.                                                             *)
CreatedId(children, name) ==
  LET ids == SearchIdsHighConfidence(children, name)
  IN  IF ids = {} THEN Len(children)
      ELSE IF Cardinality(ids) = 1 THEN CHOOSE id \in ids : TRUE
      ELSE InvalidId

Create(children, name) ==
  IF SearchIdsHighConfidence(children, name) = {}
    THEN Append(children, NewChild(Len(children), name))
    ELSE children

(* Rename() refuses the child's own name and a name that already means     *)
(* another child.                                                          *)
\* (Seeded fault: the other children are not asked.)
MayRename_Unchecked(children, id, name) == At(children, id).name # name

MayRename(children, id, name) ==
  /\ At(children, id).name # name
  /\ SearchIdsHighConfidence(children, name) \subseteq {id}

Rename(children, id, name) == [children EXCEPT ![id + 1].name = name]

HasKeyword(children, id, word, definitive) ==
  word \in IF definitive THEN At(children, id).sure ELSE At(children, id).hints

AddKeyword(children, id, word, definitive) ==
  IF definitive
    THEN [children EXCEPT ![id + 1].sure = @ \cup {word}]
    ELSE [children EXCEPT ![id + 1].hints = @ \cup {word}]

(* The children whose ids are not in `ids`, in their order: the k-th of    *)
(* those that stay is the one with k of them up to it.                     *)
Without(children, ids) ==
  LET stay == {i \in DOMAIN children : children[i].id \notin ids}
  IN  [k \in 1 .. Cardinality(stay) |->
         children[CHOOSE i \in stay : Cardinality({j \in stay : j <= i}) = k]]

(* The id that a surviving child has after the children in `froms` are     *)
(* erased: every smaller erased id moves it down by one.                   *)
\* (Seeded fault: it is moved once, for several erased.)
HealedId_Once(id, froms) == IF \E f \in froms : f < id THEN id - 1 ELSE id

HealedId(id, froms) == id - Cardinality({f \in froms : f < id})

(* Merge(): the target takes over every keyword of the others, the others  *)
(* are erased, and the ids of the rest are healed to their new places.     *)
\* (Seeded fault: the children that stay keep the ids they had.)
Merge_Unhealed(children, froms, to) == Without(children, froms)

Merge(children, froms, to) ==
  LET merged == froms \cup {to}
      richer == [children EXCEPT
                   ![to + 1].sure  = UNION {At(children, id).sure : id \in merged},
                   ![to + 1].hints = UNION {At(children, id).hints : id \in merged}]
      kept   == Without(richer, froms)
  IN  [i \in DOMAIN kept |-> [kept[i] EXCEPT !.id = i - 1]]

(* StreamOut() leaves out the child at id 0 of a collection that has a     *)
(* built-in one; StreamIn() appends what it reads behind the built-in.     *)
\* (Seeded fault: the built-in child is saved with the others.)
StreamOut_All(children, hasDefault) == children

StreamOut(children, hasDefault) ==
  IF hasDefault THEN Without(children, {0}) ELSE children

StreamIn(stored, hasDefault) ==
  IF hasDefault THEN <<DefaultChild>> \o stored ELSE stored

=============================================================================
