------------------------------ MODULE ConfTree ------------------------------
(***************************************************************************)
(* CONF: conf::Config owns a parsed YAML tree and answers typed questions  *)
(* about dotted paths; conf::Value walks the same tree child by child.     *)
(* Scalars are texts; what a text reads as is the table of the parser.     *)
(***************************************************************************)
EXTENDS Integers, Sequences, FiniteSets, SequencesExt, TLC

CONSTANTS
    ConfDocuments,  \* the inputs of from_string: trees, or Malformed
    ConfPaths       \* the dotted paths asked for, as sequences of segments

VARIABLES
    confDoc,     \* the text given to the factory
    confTree,    \* the object's tree, NoTree before the factory and after a move
    confProbe,   \* the path asked first and last
    confAnswers  \* the answers about confProbe, in the order they were given

confVars == <<confDoc, confTree, confProbe, confAnswers>>

YMap(f)    == [kind |-> "map", at |-> f]
YSeq(s)    == [kind |-> "sequence", items |-> s]
YScalar(t) == [kind |-> "scalar", text |-> t]
YNull      == [kind |-> "null"]
Undefined  == [kind |-> "undefined"]
Malformed  == [kind |-> "malformed"]   \* a text that is not YAML
NoFile     == [kind |-> "no file"]     \* a path that cannot be opened
NoTree     == [kind |-> "no tree"]     \* impl_ is null

\* The integers the texts of the models stand for.
IntOf == "-1" :> -1 @@ "0" :> 0 @@ "1" :> 1 @@ "2" :> 2 @@ "3" :> 3 @@ "4" :> 4
         @@ "16" :> 16 @@ "60" :> 60 @@ "1024" :> 1024 @@ "4096" :> 4096
         @@ "4097" :> 4097 @@ "5000" :> 5000 @@ "1048576" :> 1048576
IntTexts    == DOMAIN IntOf
DoubleTexts == IntTexts \cup {"1.5"}
BoolTexts   == {"true", "false"}
IndexTexts  == {t \in IntTexts : IntOf[t] >= 0}   \* all digits, and fits size_t

\* The factories: no file to open, a text the parser refuses, or a tree.
FromFile(doc) ==
    CASE doc = NoFile -> "File_Not_Found" [] doc = Malformed -> "Parse_Error" [] OTHER -> "ok"
FromText(doc) == IF doc = Malformed THEN "Parse_Error" ELSE "ok"

Found(node) == [code |-> "ok", node |-> node]
Fail(code)  == [code |-> code, node |-> Undefined]

\* One segment of the walk: a literal key of a map, an index of a sequence.
Descend(r, seg) ==
    CASE r.code # "ok" -> r
      [] r.code = "ok" /\ r.node.kind = "map" ->
           IF seg \in DOMAIN r.node.at THEN Found(r.node.at[seg]) ELSE Fail("Key_Not_Found")
      [] r.code = "ok" /\ r.node.kind = "sequence" ->
           IF seg \in IndexTexts /\ IntOf[seg] < Len(r.node.items)
             THEN Found(r.node.items[IntOf[seg] + 1]) ELSE Fail("Key_Not_Found")
      [] OTHER -> Fail("Key_Not_Found")

\* Every segment is looked at before the walk begins.
Resolve(root, path) ==
    IF path = <<>> \/ \E i \in DOMAIN path : path[i] = ""
      THEN Fail("Invalid_Arg")
      ELSE FoldLeft(Descend, Found(root), path)

\* Mutant of TreeAfterResolve: the walk rebinds the node it shares with the root.
TreeAfterSharedWalk(root, path) ==
    IF Resolve(root, path).code = "ok" THEN Resolve(root, path).node ELSE root

\* The walk is on a clone of the root: the tree is as it was.
TreeAfterResolve(root, path) == root

\* The node of a path, for an object that may have been moved from.
Node(root, path) == IF root = NoTree THEN Fail("Key_Not_Found") ELSE Resolve(root, path)

\* convert<T>: a scalar whose text reads as a T.
Convert(r, texts) ==
    CASE r.code # "ok" -> r
      [] r.code = "ok" /\ r.node.kind = "scalar" /\ r.node.text \in texts -> r
      [] OTHER -> Fail("Type_Mismatch")

ConvertString(r) == IF r.code = "ok" /\ r.node.kind # "scalar" THEN Fail("Type_Mismatch") ELSE r

Has(root, path)        == Node(root, path).code = "ok"
IsMap(root, path)      == Node(root, path).node.kind = "map"
IsSequence(root, path) == Node(root, path).node.kind = "sequence"
NodeSize(node) == CASE node.kind = "map" -> Cardinality(DOMAIN node.at)
                    [] node.kind = "sequence" -> Len(node.items)
                    [] OTHER -> 0
SizeAt(root, path)     == NodeSize(Node(root, path).node)

GetInt(root, path)    == Convert(Node(root, path), IntTexts)
GetDouble(root, path) == Convert(Node(root, path), DoubleTexts)
GetBool(root, path)   == Convert(Node(root, path), BoolTexts)
GetString(root, path) == ConvertString(Node(root, path))

\* try_*: an absent answer for every error.
Try(r) == IF r.code = "ok" THEN <<r.node>> ELSE <<>>

\* get_*_list: all elements convert, or the call throws.
GetIntList(root, path) ==
    LET r == Node(root, path) IN
    CASE r.code # "ok" -> r
      [] r.code = "ok" /\ r.node.kind # "sequence" -> Fail("Type_Mismatch")
      [] OTHER -> IF \A i \in DOMAIN r.node.items : Convert(Found(r.node.items[i]), IntTexts).code = "ok"
                    THEN r ELSE Fail("Type_Mismatch")
GetDoubleList(root, path) ==
    LET r == Node(root, path) IN
    CASE r.code # "ok" -> r
      [] r.code = "ok" /\ r.node.kind # "sequence" -> Fail("Type_Mismatch")
      [] OTHER -> IF \A i \in DOMAIN r.node.items : Convert(Found(r.node.items[i]), DoubleTexts).code = "ok"
                    THEN r ELSE Fail("Type_Mismatch")
GetStringList(root, path) ==
    LET r == Node(root, path) IN
    CASE r.code # "ok" -> r
      [] r.code = "ok" /\ r.node.kind # "sequence" -> Fail("Type_Mismatch")
      [] OTHER -> IF \A i \in DOMAIN r.node.items : ConvertString(Found(r.node.items[i])).code = "ok"
                    THEN r ELSE Fail("Type_Mismatch")

\* Config::root and at: a Value for the node.
RootValue(root)      == IF root = NoTree THEN Fail("Key_Not_Found") ELSE Found(root)
ValueAt(root, path)  == Node(root, path)

-----------------------------------------------------------------------------
\* Value: child access never throws, an absent child is an undefined Value.
ChildIndex(v, i) == IF v.kind = "sequence" /\ i < Len(v.items) THEN v.items[i + 1] ELSE Undefined
ChildKey(v, key) == IF v.kind = "map" /\ key \in DOMAIN v.at THEN v.at[key] ELSE Undefined
ValueKeys(v)     == IF v.kind = "map" THEN DOMAIN v.at ELSE {}

AsInt(v)    == Convert(Found(v), IntTexts)
AsDouble(v) == Convert(Found(v), DoubleTexts)
AsBool(v)   == Convert(Found(v), BoolTexts)
AsString(v) == ConvertString(Found(v))
\* The fallback stands in for an absent value and for one of another type.
OrElse(r, fallback) == IF Try(r) = <<>> THEN YScalar(fallback) ELSE r.node
\* as_double_list, as_string_list: empty for a node that is no sequence, and
\* the parser's own exception for an element that does not convert.
AsDoubleList(v) ==
    CASE v.kind # "sequence" -> Found(YSeq(<<>>))
      [] OTHER -> IF \A i \in DOMAIN v.items : AsDouble(v.items[i]).code = "ok"
                    THEN Found(v) ELSE Fail("BadConversion")
AsStringList(v) ==
    CASE v.kind # "sequence" -> Found(YSeq(<<>>))
      [] OTHER -> IF \A i \in DOMAIN v.items : v.items[i].kind \in {"scalar", "null"}
                    THEN Found(v) ELSE Fail("BadConversion")

-----------------------------------------------------------------------------
\* Everything a Config says about one path.
Answer(root, path) ==
    [has |-> Has(root, path), map |-> IsMap(root, path), seq |-> IsSequence(root, path),
     size |-> SizeAt(root, path),
     int |-> GetInt(root, path).code, double |-> GetDouble(root, path).code,
     bool |-> GetBool(root, path).code, string |-> GetString(root, path).code,
     ints |-> GetIntList(root, path).code, doubles |-> GetDoubleList(root, path).code,
     strings |-> GetStringList(root, path).code]

ConfInit ==
    /\ confDoc \in ConfDocuments
    /\ confTree = NoTree
    /\ confProbe \in ConfPaths
    /\ confAnswers = <<>>

\* Config::from_string: the tree, or Parse_Error and no object.
FromString ==
    /\ confAnswers = <<>> /\ confTree = NoTree
    /\ FromText(confDoc) = "ok"
    /\ confTree' = confDoc
    /\ confAnswers' = <<Answer(confDoc, confProbe)>>
    /\ UNCHANGED <<confDoc, confProbe>>

\* Any accessor: each one resolves its path.
Access(path) ==
    /\ confTree # NoTree
    /\ Len(confAnswers) = 1
    /\ confTree' = TreeAfterResolve(confTree, path)
    /\ confAnswers' = Append(confAnswers, Answer(confTree', confProbe))
    /\ UNCHANGED <<confDoc, confProbe>>

\* The object is moved from: what it answers then is recorded last.
MoveFrom ==
    /\ confTree # NoTree
    /\ confTree' = NoTree
    /\ confAnswers' = Append(confAnswers, Answer(NoTree, confProbe))
    /\ UNCHANGED <<confDoc, confProbe>>

ConfNext == FromString \/ (\E p \in ConfPaths : Access(p)) \/ MoveFrom

-----------------------------------------------------------------------------
\* Walking the tree by Value, one child per segment.
ValueWalk(root, path) ==
    FoldLeft(LAMBDA v, seg : IF v.kind = "sequence"
                               THEN IF seg \in IndexTexts THEN ChildIndex(v, IntOf[seg]) ELSE Undefined
                               ELSE ChildKey(v, seg), root, path)

(***************************************************************************)
(* Reading a configuration does not change it: an object gives the same    *)
(* answers about a path whatever was asked in between, the two ways to a   *)
(* node (a dotted path, a walk by Value) lead to the same one, a list of a *)
(* type is read exactly when each of its elements is, and a moved-from     *)
(* object has nothing.                                                     *)
(***************************************************************************)
LookupsCoherent ==
    /\ confTree # NoTree =>
         /\ \A i \in DOMAIN confAnswers : confAnswers[i] = confAnswers[1]
         /\ \A p \in ConfPaths :
              p # <<>> /\ (\A i \in DOMAIN p : p[i] # "") =>
                /\ Resolve(confTree, p).node = ValueWalk(confTree, p)
                /\ Try(ValueAt(RootValue(confTree).node, p)) = Try(Resolve(confTree, p))
                /\ LET v == ValueWalk(confTree, p) IN
                     /\ Try(GetInt(confTree, p)) = Try(AsInt(v))
                     /\ Try(GetDouble(confTree, p)) = Try(AsDouble(v))
                     /\ Try(GetBool(confTree, p)) = Try(AsBool(v))
                     /\ Try(GetString(confTree, p)) = Try(AsString(v))
                     /\ v.kind = "map" => Cardinality(ValueKeys(v)) = SizeAt(confTree, p)
                     /\ OrElse(AsBool(v), "fallback").text = "fallback" <=> GetBool(confTree, p).code # "ok"
                     /\ GetStringList(confTree, p).code = "ok" => AsStringList(v).code = "ok"
                /\ Has(confTree, p) => \A i \in 0 .. SizeAt(confTree, p) - 1 :
                     IsSequence(confTree, p) => ChildIndex(ValueWalk(confTree, p), i) # Undefined
                /\ GetDoubleList(confTree, p).code = "ok" =>
                     AsDoubleList(ValueWalk(confTree, p)).code = "ok"
    /\ confTree = NoTree /\ confAnswers # <<>> =>
         /\ ~Last(confAnswers).has /\ Last(confAnswers).size = 0
         /\ Last(confAnswers).int \in {"Key_Not_Found", "Invalid_Arg"}
=============================================================================
