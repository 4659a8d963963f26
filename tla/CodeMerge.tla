------------------------------ MODULE CodeMerge ------------------------------
(***************************************************************************)
(* pkg/goast: a user's Go file into which generated files are merged, over *)
(* and over, while the user goes on editing it.                            *)
(*                                                                         *)
(* A file is a set of declarations; their order is left out.  A            *)
(* declaration has the names that AstInfo has (a method: its name, then    *)
(* its receiver's), and                                                    *)
(*   text    which version of its body it has;                             *)
(*   within  the function it is local to, if it is;                        *)
(*   members struct fields or interface methods of each of its types; a    *)
(*           type without an entry is neither a struct nor an interface;   *)
(*   interfaces  which of these types are interfaces;                      *)
(*   group   it is a variable or has types in parentheses;                 *)
(*   locals  the variables that a function declares with `var' inside.     *)
(* A constant or variable is a declaration of its own, in parentheses or   *)
(* not.  Two copies of one declaration are one element of the set.         *)
(***************************************************************************)
EXTENDS Naturals, Sequences, Functions

CONSTANTS Package,     \* the name of the package
          UserDecls,   \* declarations a user may write
          GenFiles,    \* generated files
          Ignored,     \* WithIgnoreMergeFunc
          Foreign,     \* members that embed a type of another package
          MaxEdits,    \* bound: declarations written by the user
          MaxMerges    \* bound: merges

(* A declaration has one name, unless it is a group of types or a method;  *)
(* only types have members.                                                *)
IsDecl(d) ==
  /\ d = [x \in {"kind", "names", "text", "within", "members", "interfaces", "group", "locals"}
             |-> d[x]]
  /\ d.kind \in {"import", "const", "var", "type", "func"}
  /\ \/ d.kind = "type" /\ d.group
     \/ d.kind = "func" /\ Len(d.names) = 2
     \/ \E n \in Range(d.names) : d.names = <<n>>
  /\ d.members = [n \in DOMAIN d.members |-> d.members[n]]
  /\ DOMAIN d.members \subseteq (IF d.kind = "type" THEN Range(d.names) ELSE {})

ASSUME MergeAssumption == /\ MaxEdits \in Nat /\ MaxMerges \in Nat
                          /\ \A d \in UserDecls \cup UNION GenFiles : IsDecl(d)

VARIABLES file,      \* the user's file
          last,      \* history: the latest merge
          edits, merges

mergeVars == <<file, last, edits, merges>>

OfKind(k, f) == {d \in f : d.kind = k}
NamesOf(f)   == {d.names : d \in f}

(* ParseGoCode visits the bodies of functions too: their declarations are *)
(* listed among those of the file.                                        *)
Local(x, d) == [kind |-> "var", names |-> <<x>>, text |-> d.text, within |-> d.names,
                members |-> <<>>, interfaces |-> {}, group |-> FALSE, locals |-> {}]
AstInfos(f) == f \cup UNION {{Local(x, d) : x \in d.locals} : d \in OfKind("func", f)}

(* What the parsers of each kind of declaration find in a file. *)
ImportPaths(f)  == NamesOf(OfKind("import", f))
ConstNames(f)   == NamesOf(OfKind("const", f))
VarNames(f)     == NamesOf(OfKind("var", AstInfos(f)))
TypeNames(f)    == UNION {Range(d.names) : d \in OfKind("type", f)}
MembersOf(n, f, isInterface) ==
  UNION {d.members[n] : d \in {e \in OfKind("type", f) :
                                 n \in DOMAIN e.members /\ (n \in e.interfaces) = isInterface}}

(* strings.Contains(a.Code, d.Body); the text of a variable on its own     *)
(* begins with `var', which one in parentheses does not have.              *)
Contains(f, d) ==
  \E e \in AstInfos(f) : /\ e.kind = d.kind /\ e.names = d.names /\ e.text = d.text
                         /\ e.kind = "var" /\ e.group => d.group

-----------------------------------------------------------------------------
(* mergeImportCode: the paths that the file does not import yet. *)
NewImports(f, g) == {d \in OfKind("import", g) : d.names \notin ImportPaths(f)}

(* A slip: the file's constants are not looked up. *)
NewConstsAll(f, g) == OfKind("const", g)

(* compareConstCode *)
NewConsts(f, g) == {d \in OfKind("const", g) : d.names \notin ConstNames(f)}

(* compareVarCode: locals count as variables, those of g are new ones.     *)
(* They are appended as they are to a file without variables, and in       *)
(* parentheses to one that has some.                                       *)
InParentheses(d) == [d EXCEPT !.group = TRUE]
Placed(d, f)     == IF VarNames(f) = {} THEN d ELSE InParentheses(d)

NewVars(f, g) ==
  {Placed(d, f) : d \in
     {x \in OfKind("var", AstInfos(g)) :
        \/ x.names \notin VarNames(f)
        \/ x.names = <<"_">> /\ ~Contains(f, x)}}

(* mergeExistedTypeCode parses the text of a struct or an interface that   *)
(* both files have; inside parentheses that text is no declaration.        *)
ParseFails(f, g) ==
  \E d \in OfKind("type", f), e \in OfKind("type", g) :
     Range(d.names) \cap DOMAIN e.members # {} /\ (d.group \/ e.group)

(* What ParseInterface and ParseStruct make of embedded types of other     *)
(* packages: an interface is read without them, and in a struct they all   *)
(* have the empty name.                                                    *)
NewInterfaceMethods(have, gen) == gen \ (have \cup Foreign)
NewStructFields(have, gen) ==
  {m \in gen \ have : m \in Foreign => have \cap Foreign = {}}

(* A slip: the members of the file's type are replaced. *)
MergeMembersReplaced(d, g) ==
  [d EXCEPT !.members = [n \in DOMAIN d.members |->
     IF MembersOf(n, g, n \in d.interfaces) = {} THEN d.members[n]
     ELSE MembersOf(n, g, n \in d.interfaces)]]

(* mergeInterfaceMethodCode, mergeStructFieldsCode: new members are added; *)
(* an interface of which no method was read is replaced by the new ones.   *)
MergeInterface(have, gen) ==
  IF have \subseteq Foreign /\ NewInterfaceMethods(have, gen) # {}
  THEN NewInterfaceMethods(have, gen)
  ELSE have \cup NewInterfaceMethods(have, gen)
MergeStruct(have, gen) == have \cup NewStructFields(have, gen)

MergedMembers(n, d, g) ==
  IF n \in d.interfaces THEN MergeInterface(d.members[n], MembersOf(n, g, TRUE))
                        ELSE MergeStruct(d.members[n], MembersOf(n, g, FALSE))
MergeMembers(d, g) ==
  [d EXCEPT !.members = [n \in DOMAIN d.members |-> MergedMembers(n, d, g)]]

(* mergeStructMethodsCode: new methods of a struct that has methods. *)
Methods(f)       == {d \in OfKind("func", f) : Len(d.names) = 2}
NewMethods(f, g) == {d \in Methods(g) : /\ \E e \in Methods(f) : e.names[2] = d.names[2]
                                        /\ d.names \notin NamesOf(Methods(f))}
MergedStructs(f, g) == {d.names[2] : d \in NewMethods(f, g)}

(* coverFuncCode: a function of the same name takes the generated text. *)
Anonymous == {<<"init">>, <<"_">>}
Cover(d, g) ==
  LET same == {e \in OfKind("func", g) : e.names = d.names /\ e.names \notin Anonymous
                                         /\ e.names[1] \notin Ignored}
  IN  IF d.kind = "func" /\ same # {} THEN CHOOSE e \in same : TRUE ELSE d

(* appendNonExistedCode, for types and functions: known are the names of   *)
(* the package and of every declaration, a local or a whole group.         *)
Known(f) == {<<Package>>} \cup NamesOf(AstInfos(f))

NewTypes(d, f) == SelectSeq(d.names, LAMBDA n : n \notin TypeNames(f))
Shortened(d, f) ==
  IF d.kind = "type" /\ Len(d.names) > 1 /\ NewTypes(d, f) # <<>>
  THEN [d EXCEPT !.names = NewTypes(d, f), !.group = TRUE,
                 !.members = Restrict(d.members, DOMAIN d.members \cap Range(NewTypes(d, f))),
                 !.interfaces = d.interfaces \cap Range(NewTypes(d, f))]
  ELSE d

Appended(f, g) ==
  {Shortened(d, f) : d \in
     {x \in OfKind("type", g) \cup OfKind("func", g) :
        /\ ~(x \in Methods(g) /\ x.names[2] \in MergedStructs(f, g))
        /\ \/ x.names \notin Known(f)
           \/ x.names \in Anonymous /\ ~Contains(f, x)}}

(* mergeCode, when nothing fails. *)
Additions(f, g) == NewImports(f, g) \cup NewConsts(f, g) \cup NewVars(f, g)
                   \cup NewMethods(f, g) \cup Appended(f, g)

mergeCode(f, g, isCoverSameFunc) ==
  LET typed == {IF d.kind = "type" THEN MergeMembers(d, g) ELSE d : d \in f}
  IN  (IF isCoverSameFunc THEN {Cover(d, g) : d \in typed} ELSE typed) \cup Additions(f, g)

-----------------------------------------------------------------------------
(* The package-level declarations of a name; a file may have several of    *)
(* `init' and of `_'.  A method is named with its receiver.                *)
Declared(d)    == IF d.kind = "type" THEN {<<n>> : n \in Range(d.names)} ELSE {d.names}
Declares(n, f) == {d \in f : n \in Declared(d)}
AllNames(f)    == (UNION {Declared(d) : d \in f}) \ Anonymous
Once(n, f)     == \E d \in f : Declares(n, f) = {d}
Compiles(f)    == \A n \in AllNames(f) : Once(n, f)

(* Generated files compile, and their types have names. *)
ASSUME GeneratedAssumption ==
  \A g \in GenFiles : /\ Compiles(g)
                       /\ \A d \in OfKind("type", g) : Declared(d) \cap Anonymous = {}

(* A declaration of g has the name of the package, of a local, or of       *)
(* another kind of declaration in f; or a local of g is a variable that f  *)
(* has only inside a function, which the merge may replace.                *)
LocalNames(f) == {<<x>> : x \in UNION {d.locals : d \in OfKind("func", f)}}
OwnVars(f)    == NamesOf(OfKind("var", f)) \ {<<"_">>}

Masked(f, g) ==
  \/ \E d \in g : Declared(d) \cap ({<<Package>>} \cup LocalNames(f) \cup LocalNames(g)) # {}
  \/ \E d \in f, e \in g : d.kind # e.kind /\ (Declared(d) \cap Declared(e)) \ Anonymous # {}
  \/ LocalNames(g) \cap (LocalNames(f) \ OwnVars(f)) # {}

(* The user writes a declaration. *)
Edit(d) ==
  /\ edits < MaxEdits /\ edits' = edits + 1
  /\ d \notin file /\ Compiles(file \cup {d})
  /\ file' = file \cup {d}
  /\ UNCHANGED <<last, merges>>

(* A generated file is merged into a file that compiles. *)
MergeGoFile(g, isCoverSameFunc) ==
  /\ merges < MaxMerges /\ Compiles(file) /\ ~ParseFails(file, g)
  /\ merges' = merges + 1
  /\ file' = mergeCode(file, g, isCoverSameFunc)
  /\ last' = [gen |-> g, cover |-> isCoverSameFunc, masked |-> Masked(file, g)]
  /\ UNCHANGED edits

(* errDuplication: a text that is to be replaced may be there twice, in a  *)
(* comment or a string too: the package clause when imports are put behind *)
(* it, a type that gets members, the last method of a struct.              *)
MayBeTwice(f, g) ==
  \/ OfKind("import", f) = {} /\ OfKind("import", g) # {}
  \/ \E d \in OfKind("type", f) : MergeMembers(d, g) # d
  \/ NewMethods(f, g) # {}

(* The caller gets an error and no code. *)
MergeFails(g) ==
  /\ merges < MaxMerges /\ Compiles(file)
  /\ ParseFails(file, g) \/ MayBeTwice(file, g)
  /\ merges' = merges + 1
  /\ UNCHANGED <<file, last, edits>>

MergeInit == /\ file = {} /\ last = [gen |-> {}, cover |-> FALSE, masked |-> FALSE]
             /\ edits = 0 /\ merges = 0

MergeNext == \/ \E d \in UserDecls : Edit(d)
             \/ \E g \in GenFiles : MergeFails(g) \/ \E c \in BOOLEAN : MergeGoFile(g, c)

MergeSpec == MergeInit /\ [][MergeNext]_mergeVars

-----------------------------------------------------------------------------
(* Whatever is merged, with groups, locals and masked names too: every     *)
(* declaration of the user's file stays, and only a merge that covers      *)
(* functions changes a text, never one that is ignored.  A type loses no   *)
(* member, unless it is an interface that only embeds interfaces of other  *)
(* packages, which mergeInterfaceMethodCode does not read.                 *)
Unread(n, d) == n \in d.interfaces /\ d.members[n] \subseteq Foreign

KeepsUserCode ==
  [][\A d \in file : \E e \in file' :
        /\ e.kind = d.kind /\ e.names = d.names
        /\ \A n \in DOMAIN d.members : Unread(n, d) \/ d.members[n] \subseteq e.members[n]
        /\ \/ e.text = d.text
           \/ last'.cover /\ d.kind = "func" /\ d.names[1] \notin Ignored]_mergeVars

(* Type groups aside, and unless something in the file masks a generated   *)
(* declaration or variable, a merge is exact, however often and in         *)
(* whatever order files were merged before and whatever the user wrote,    *)
(* before and since: each generated name is declared once, and merging the *)
(* same file once more changes nothing and adds nothing new.  All it may   *)
(* add is another copy of a blank variable that the file already has: one  *)
(* that is not in parentheses in the generated file is not found again     *)
(* where compareVarCode put it into parentheses.                           *)
BlankCopies(g) == {InParentheses(d) : d \in {x \in OfKind("var", AstInfos(g)) : x.names = <<"_">>}}

Exact(f, g, c) == /\ \A n \in AllNames(g) : Once(n, f)
                  /\ Additions(f, g) \subseteq BlankCopies(g)
                  /\ mergeCode(f, g, c) = f

Plain == ~last.masked /\ \A d \in OfKind("type", file \cup last.gen) : ~d.group

MergeExact == Plain => Exact(file, last.gen, last.cover)
=============================================================================
