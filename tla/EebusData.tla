----------------------------- MODULE EebusData -----------------------------
(***************************************************************************)
(* The generic data layer of src/src/common/eebus_data: every SPINE        *)
(* message and every stored function is a tree interpreted through a table *)
(* of configurations (EebusDataCfg).  A model cfg is a record              *)
(*   [kind |-> "value" | "tag",              id |-> BOOLEAN]               *)
(*   [kind |-> "enum", id |-> BOOLEAN,       names |-> {_, ...}]           *)
(*   [kind |-> "sequence", id |-> BOOLEAN,                                 *)
(*                        fields |-> <<[name |-> _, cfg |-> _], ...>>]     *)
(*   [kind |-> "list" | "simplelist",        of |-> cfg]                   *)
(*   [kind |-> "container", ...]  a sequence of one list, the data of the  *)
(*                                functions that store a list              *)
(*   [kind |-> "smartEnergy", ...]  the data of smartEnergyManagementPs    *)
(*   [kind |-> "choice", alts |-> <<[name |-> _, cfg |-> _], ...>>]        *)
(* id is kEebusDataFlagIsIdentifier or kEebusDataFlagIsSubIdentifier.  The *)
(* value of a sequence is the tuple of the values of its fields, in their  *)
(* order, that of a list a TLA+ sequence, that of a choice the record of   *)
(* its type id and its value, and NULL stands for the null pointer.  A     *)
(* copy in the C code is a value here, so Write, which copies src over     *)
(* whatever the destination held, returns src.                             *)
(***************************************************************************)
EXTENDS Naturals, Sequences, SequencesExt

CONSTANTS NULL,            \* the null pointer
          ParseError,      \* result of reading JSON of another shape
          MallocZeroIsNull \* malloc(0) returns NULL (FreeRTOS) or not (glibc)

ASSUME MallocZeroAssumption == MallocZeroIsNull \in BOOLEAN

Field(name, cfg) == [name |-> name, cfg |-> cfg]
TagCfg == [kind |-> "tag", id |-> FALSE]

IsSequence(cfg) == cfg.kind \in {"sequence", "container", "smartEnergy"}

IsList(cfg) == cfg.kind \in {"list", "simplelist"}

EmptyOf(cfg) == [i \in 1..Len(cfg.fields) |-> NULL]

Write(cfg, dst, src) == src

IsEmptyOf(cfg, v) ==
    IsSequence(cfg) /\ v # NULL /\ \A i \in 1..Len(v) : v[i] = NULL

RECURSIVE Compare(_, _, _, _)

CompareSimple(acfg, a, bcfg, b) == acfg.kind = bcfg.kind /\ a = b

CompareList(acfg, a, bcfg, b) ==
    IF NULL \in {a, b} THEN a = b
    ELSE /\ Len(a) = Len(b)
         /\ \A i \in 1..Len(a) : Compare(acfg.of, a[i], bcfg.of, b[i])

CompareSequence(acfg, a, bcfg, b) ==
    /\ acfg.kind = bcfg.kind
    /\ IF NULL \in {a, b} THEN a = b
       ELSE /\ Len(acfg.fields) = Len(bcfg.fields)
            /\ \A i \in 1..Len(acfg.fields) :
                  Compare(acfg.fields[i].cfg, a[i], bcfg.fields[i].cfg, b[i])

CompareChoice(acfg, a, bcfg, b) ==
    /\ acfg.kind = bcfg.kind
    /\ IF NULL \in {a, b} THEN a = b
       ELSE Compare(acfg.alts[a.type].cfg, a.v, bcfg.alts[b.type].cfg, b.v)

Compare(acfg, a, bcfg, b) ==
    CASE acfg.kind = "choice" -> CompareChoice(acfg, a, bcfg, b)
      [] IsSequence(acfg) -> CompareSequence(acfg, a, bcfg, b)
      [] IsList(acfg)     -> CompareList(acfg, a, bcfg, b)
      [] OTHER            -> CompareSimple(acfg, a, bcfg, b)

RECURSIVE HasIdentifiers(_, _)

SequenceHasIdentifiers(cfg, v) ==
    /\ v # NULL
    /\ \/ cfg.id
       \/ \E i \in 1..Len(cfg.fields) : HasIdentifiers(cfg.fields[i].cfg, v[i])

HasIdentifiers(cfg, v) ==
    CASE IsSequence(cfg) -> SequenceHasIdentifiers(cfg, v)
      [] IsList(cfg)     -> FALSE
      [] OTHER           -> v # NULL /\ cfg.id

RECURSIVE IdentifiersMatch(_, _, _)

BaseIdentifiersMatch(cfg, v, src) ==
    \/ IsList(cfg) \/ ~cfg.id
    \/ src = NULL
    \/ Compare(cfg, v, cfg, src)

SequenceIdentifiersMatch(cfg, v, src) ==
    IF cfg.id THEN Compare(cfg, v, cfg, src)
    ELSE \/ ~HasIdentifiers(cfg, src)
         \/ /\ v # NULL
            /\ \A i \in 1..Len(cfg.fields) :
                  IdentifiersMatch(cfg.fields[i].cfg, v[i], src[i])

IdentifiersMatch(cfg, v, src) ==
    IF IsSequence(cfg) THEN SequenceIdentifiersMatch(cfg, v, src)
    ELSE BaseIdentifiersMatch(cfg, v, src)

(* Position of the field with a name; 0 when the configuration has none.   *)
SequenceGetFieldCfg(cfg, name) ==
    SelectInSeq(cfg.fields, LAMBDA f : f.name = name)

(* Selectors are compared field by field, found by name; a selector that   *)
(* names no field of the data is skipped.                                  *)
SelectorsMatch(cfg, v, scfg, sel) ==
    /\ IsSequence(scfg)
    /\ \/ sel = NULL
       \/ /\ v # NULL
          /\ \A i \in 1..Len(scfg.fields) :
                LET k == SequenceGetFieldCfg(cfg, scfg.fields[i].name)
                IN  \/ sel[i] = NULL
                    \/ k = 0
                    \/ Compare(cfg.fields[k].cfg, v[k],
                               scfg.fields[i].cfg, sel[i])

-----------------------------------------------------------------------------
(* Writes                                                                  *)

RECURSIVE WriteElements(_, _, _)

BaseWriteElements(cfg, dst, src) == IF src = NULL THEN dst ELSE Write(cfg, dst, src)

SequenceWriteElements(cfg, dst, src) ==
    IF src = NULL THEN dst
    ELSE LET buf == IF dst = NULL THEN EmptyOf(cfg) ELSE dst
         IN  [i \in 1..Len(cfg.fields) |->
                 WriteElements(cfg.fields[i].cfg, buf[i], src[i])]

WriteElements(cfg, dst, src) ==
    IF IsSequence(cfg) THEN SequenceWriteElements(cfg, dst, src)
    ELSE BaseWriteElements(cfg, dst, src)

RECURSIVE WritePartial(_, _, _, _, _)

SequenceWritePartial(cfg, dst, src) ==
    IF src = NULL THEN dst
    ELSE LET buf == IF dst = NULL THEN EmptyOf(cfg) ELSE dst
         IN  [i \in 1..Len(cfg.fields) |->
                 WritePartial(cfg.fields[i].cfg, buf[i], src[i], NULL, NULL)]

CopyToSelectedData(cfg, dst, src, scfg, sel) ==
    IF src = NULL \/ dst = NULL THEN dst
    ELSE [i \in 1..Len(dst) |->
             IF SelectorsMatch(cfg.of, dst[i], scfg, sel)
             THEN WriteElements(cfg.of, dst[i], src[1]) ELSE dst[i]]

CopyToAllData(cfg, dst, src) ==
    IF src = NULL \/ dst = NULL THEN dst
    ELSE [i \in 1..Len(dst) |-> WritePartial(cfg.of, dst[i], src[1], NULL, NULL)]

(* Mutant: an element that carries no value for an identifier matches none. *)
GetItemMatchingExactly(cfg, ar, el) ==
    SelectInSeq(ar, LAMBDA x : Compare(cfg.of, x, cfg.of, el))

(* Index of the first stored element an element of src is written to.      *)
GetItemMatchingIdentifiers(cfg, ar, el) ==
    SelectInSeq(ar, LAMBDA x : IdentifiersMatch(cfg.of, x, el))

(* Elements of src are matched against the elements stored before the      *)
(* write only: two new ones with the same identifiers are both appended.   *)
MergeData(cfg, dst, src) ==
    LET ar == IF dst = NULL THEN <<>> ELSE dst
        Merge1(acc, el) ==
            LET k == GetItemMatchingIdentifiers(cfg, SubSeq(acc, 1, Len(ar)), el)
            IN  IF k # 0
                THEN [acc EXCEPT ![k] = WritePartial(cfg.of, @, el, NULL, NULL)]
                ELSE Append(acc, Write(cfg.of, NULL, el))
    IN  FoldLeft(Merge1, ar, src)

ListElementsHaveIdentifiers(cfg, src) ==
    src \notin {NULL, <<>>} /\ HasIdentifiers(cfg.of, src[1])

ListWritePartial(cfg, dst, src, scfg, sel) ==
    CASE cfg.kind = "simplelist"                -> BaseWriteElements(cfg, dst, src)
      [] sel # NULL                             -> CopyToSelectedData(cfg, dst, src, scfg, sel)
      [] ~ListElementsHaveIdentifiers(cfg, src) -> CopyToAllData(cfg, dst, src)
      [] OTHER                                  -> MergeData(cfg, dst, src)

(* The data of smartEnergyManagementPs: selectors are not implemented for  *)
(* its alternatives, which are left as they are then.                      *)
SmartEnergyWritePartial(cfg, dst, src, scfg, sel) ==
    IF src = NULL THEN dst
    ELSE LET buf == IF dst = NULL THEN EmptyOf(cfg) ELSE dst
             k == SequenceGetFieldCfg(cfg, "nodeScheduleInformation")
             a == SequenceGetFieldCfg(cfg, "alternatives")
         IN  [buf EXCEPT
                ![k] = WritePartial(cfg.fields[k].cfg, @, src[k], scfg, sel),
                ![a] = IF sel # NULL THEN @ ELSE WritePartial(cfg.fields[a].cfg, @, src[a], NULL, NULL)]

(* Selectors reach the list of a container; a null source is an error.     *)
ContainerWritePartial(cfg, dst, src, scfg, sel) ==
    IF src = NULL THEN dst
    ELSE LET buf == IF dst = NULL THEN EmptyOf(cfg) ELSE dst
         IN  <<WritePartial(cfg.fields[1].cfg, buf[1], src[1], scfg, sel)>>

WritePartial(cfg, dst, src, scfg, sel) ==
    CASE cfg.kind = "container" -> ContainerWritePartial(cfg, dst, src, scfg, sel)
      [] cfg.kind = "smartEnergy" -> SmartEnergyWritePartial(cfg, dst, src, scfg, sel)
      [] IsSequence(cfg) -> SequenceWritePartial(cfg, dst, src)
      [] IsList(cfg)     -> ListWritePartial(cfg, dst, src, scfg, sel)
      [] OTHER           -> BaseWriteElements(cfg, dst, src)

-----------------------------------------------------------------------------
(* Deletes and selective reads                                             *)

RECURSIVE DeleteElements(_, _, _, _)

SimpleDeleteElements(v, el) == IF el = NULL THEN v ELSE NULL

(* Data fields and element fields are paired by position.                  *)
SequenceDeleteElements(cfg, v, ecfg, el) ==
    IF ~IsSequence(ecfg) \/ v = NULL \/ el = NULL THEN v
    ELSE IF IsEmptyOf(ecfg, el) THEN NULL
    ELSE [i \in 1..Len(v) |->
             IF i > Len(el) \/ el[i] = NULL THEN v[i]
             ELSE IF IsEmptyOf(ecfg.fields[i].cfg, el[i]) THEN NULL
             ELSE DeleteElements(cfg.fields[i].cfg, v[i], ecfg.fields[i].cfg, el[i])]

DeleteElements(cfg, v, ecfg, el) ==
    IF IsSequence(cfg) THEN SequenceDeleteElements(cfg, v, ecfg, el)
    ELSE SimpleDeleteElements(v, el)

(* The buffer for what is left is allocated first: when nothing is left    *)
(* and malloc(0) gives NULL, the items stay.                               *)
DeleteListItems(cfg, v, scfg, sel) ==
    LET left == SelectSeq(v, LAMBDA x : ~SelectorsMatch(cfg.of, x, scfg, sel))
    IN  IF left = <<>> /\ MallocZeroIsNull THEN v ELSE left

DeleteListItemsElements(cfg, v, scfg, sel, ecfg, el) ==
    [i \in 1..Len(v) |->
        IF el = NULL \/ SelectorsMatch(cfg.of, v[i], scfg, sel)
        THEN DeleteElements(cfg.of, v[i], ecfg, el) ELSE v[i]]

ListDeletePartial(cfg, v, scfg, sel, ecfg, el) ==
    CASE v = NULL                 -> v
      [] sel = NULL /\ el = NULL  -> v
      [] sel # NULL /\ el = NULL  -> DeleteListItems(cfg, v, scfg, sel)
      [] OTHER                    -> DeleteListItemsElements(cfg, v, scfg, sel, ecfg, el)

ContainerDeletePartial(cfg, v, scfg, sel, ecfg, el) ==
    IF v = NULL THEN v
    ELSE <<ListDeletePartial(cfg.fields[1].cfg, v[1], scfg, sel, ecfg, el)>>

(* Not implemented: an assertion, which a release build leaves out.        *)
SmartEnergyDeletePartial(v) == v

DeletePartial(cfg, v, scfg, sel, ecfg, el) ==
    CASE cfg.kind = "smartEnergy" -> SmartEnergyDeletePartial(v)
      [] cfg.kind = "container" -> ContainerDeletePartial(cfg, v, scfg, sel, ecfg, el)
      [] IsList(cfg)            -> ListDeletePartial(cfg, v, scfg, sel, ecfg, el)
      [] OTHER                  -> DeleteElements(cfg, v, ecfg, el)

RECURSIVE ReadElements(_, _, _, _, _)

SimpleReadElements(cfg, v, dst, el) == IF el = NULL THEN dst ELSE Write(cfg, dst, v)

(* An element of another kind is an error, and nothing more is read.       *)
SequenceReadElements(cfg, v, dst, ecfg, el) ==
    IF ~IsSequence(ecfg) \/ v = NULL \/ el = NULL THEN dst
    ELSE IF IsEmptyOf(ecfg, el) THEN v
    ELSE LET buf == IF dst = NULL THEN EmptyOf(cfg) ELSE dst
         IN  [i \in 1..Len(v) |->
                 IF i > Len(el) \/ el[i] = NULL THEN buf[i]
                 ELSE IF IsEmptyOf(ecfg.fields[i].cfg, el[i]) THEN v[i]
                 ELSE ReadElements(cfg.fields[i].cfg, v[i], buf[i],
                                   ecfg.fields[i].cfg, el[i])]

ReadElements(cfg, v, dst, ecfg, el) ==
    IF IsSequence(cfg) THEN SequenceReadElements(cfg, v, dst, ecfg, el)
    ELSE SimpleReadElements(cfg, v, dst, el)

(* The items of a list that match, as a list of their own.                 *)
CopyMatching(cfg, v, match) ==
    IF v = NULL THEN NULL
    ELSE LET sub == SelectSeq(v, LAMBDA x : SelectorsMatch(cfg.of, x, cfg.of, match))
         IN  IF sub = <<>> THEN NULL ELSE sub

(* EebusDataListMatchIterator: the positions it visits, in order.          *)
MatchIterator(cfg, v, match) ==
    IF v = NULL \/ match = NULL THEN <<>>
    ELSE SelectSeq([i \in 1..Len(v) |-> i],
                   LAMBDA i : SelectorsMatch(cfg.of, v[i], cfg.of, match))

(* HelperGetListUniqueMatch: the only match, or nothing.                   *)
GetListUniqueMatch(cfg, v, match) ==
    LET it == MatchIterator(cfg, v, match)
    IN  IF Len(it) = 1 THEN v[it[1]] ELSE NULL

-----------------------------------------------------------------------------
(* JSON: a sequence is an array of single-member objects, in the order of  *)
(* the configuration and without its null fields; a tag that is set is []. *)

JArray(items) == [json |-> "array", items |-> items]
JValue(v) == [json |-> "value", v |-> v]

RECURSIVE ToJsonObjectItem(_, _)

(* The member a field adds to the array of its sequence: that of a choice  *)
(* has the name of the alternative.                                        *)
ToJsonObject(field, v) ==
    CASE v = NULL                    -> <<>>
      [] field.cfg.kind = "choice"   ->
             LET alt == field.cfg.alts[v.type]
             IN  <<[name |-> alt.name, item |-> ToJsonObjectItem(alt.cfg, v.v)]>>
      [] OTHER -> <<[name |-> field.name, item |-> ToJsonObjectItem(field.cfg, v)]>>

SequenceToJson(cfg, v) ==
    JArray(FlattenSeq([i \in 1..Len(cfg.fields) |-> ToJsonObject(cfg.fields[i], v[i])]))

ListToJson(cfg, v) ==
    JArray([i \in 1..Len(v) |-> ToJsonObjectItem(cfg.of, v[i])])

ToJsonObjectItem(cfg, v) ==
    CASE v = NULL         -> NULL
      [] IsSequence(cfg)  -> SequenceToJson(cfg, v)
      [] IsList(cfg)      -> ListToJson(cfg, v)
      [] cfg.kind = "tag" -> JArray(<<>>)
      [] OTHER            -> JValue(v)

RECURSIVE FromJsonObjectItem(_, _)

JsonGetItem(items, name) == SelectInSeq(items, LAMBDA x : x.name = name)

(* The first alternative of the configuration that the message names.      *)
ChoiceFromJson(cfg, items) ==
    LET k == SelectInSeq(cfg.alts, LAMBDA a : JsonGetItem(items, a.name) # 0)
    IN  IF k = 0 THEN NULL
        ELSE LET v == FromJsonObjectItem(cfg.alts[k].cfg,
                          items[JsonGetItem(items, cfg.alts[k].name)].item)
             IN  IF v = ParseError THEN ParseError ELSE [type |-> k, v |-> v]

(* A field that the message does not carry keeps the null pointer; fields  *)
(* that the configuration does not know are ignored.                       *)
FromJsonObject(field, items) ==
    IF field.cfg.kind = "choice" THEN ChoiceFromJson(field.cfg, items)
    ELSE LET k == JsonGetItem(items, field.name)
         IN  IF k = 0 THEN NULL ELSE FromJsonObjectItem(field.cfg, items[k].item)

SequenceFromJson(cfg, j) ==
    IF j.json # "array" THEN ParseError
    ELSE LET vals == [i \in 1..Len(cfg.fields) |-> FromJsonObject(cfg.fields[i], j.items)]
         IN  IF \E i \in 1..Len(vals) : vals[i] = ParseError THEN ParseError ELSE vals

kMaxElementsNum == 10000

(* An empty array leaves the list null; one that is too long is refused.   *)
ListFromJson(cfg, j) ==
    CASE j.json # "array" -> ParseError
      [] j.items = <<>>   -> NULL
      [] Len(j.items) > kMaxElementsNum -> ParseError
      [] OTHER -> LET vals == [i \in 1..Len(j.items) |-> FromJsonObjectItem(cfg.of, j.items[i])]
                  IN  IF \E i \in 1..Len(vals) : vals[i] = ParseError THEN ParseError ELSE vals

TagFromJson(j) == IF j = JArray(<<>>) THEN "set" ELSE ParseError

(* A name that the table does not know is read as no value.                *)
EnumFromJson(cfg, j) ==
    IF j.json # "value" THEN ParseError ELSE IF j.v \in cfg.names THEN j.v ELSE NULL

ValueFromJson(j) == IF j.json = "value" THEN j.v ELSE ParseError

FromJsonObjectItem(cfg, j) ==
    CASE j = NULL         -> NULL
      [] IsSequence(cfg)  -> SequenceFromJson(cfg, j)
      [] IsList(cfg)      -> ListFromJson(cfg, j)
      [] cfg.kind = "tag" -> TagFromJson(j)
      [] cfg.kind = "enum" -> EnumFromJson(cfg, j)
      [] OTHER            -> ValueFromJson(j)

=============================================================================
