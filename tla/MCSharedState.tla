--------------------------- MODULE MCSharedState ---------------------------
(* Components whose state is shared: by the goroutines of one process, or  *)
(* by a user and a generator who write one file.  `part' says which one a  *)
(* behaviour is of, and the fairness conditions are those of the component.*)
(*                                                                         *)
(* window: a ring of three buckets of two ticks each, read over more than  *)
(*   two turns, so that pauses shorter than, equal to and longer than the  *)
(*   window all occur;                                                     *)
(* group: two callers of Get on one key, and Reset and Clear;              *)
(* tokens: two requests at a time on up to four tokens, in either store;   *)
(* discovery: two gRPC connections to one service that changes once, and   *)
(*   one instance (i3) without a usable endpoint;                          *)
(* merge: three edits and three merges of six generated files, with groups *)
(*   of types, locals, blank variables, embedded types of other packages   *)
(*   and a function named like the package.                                *)
EXTENDS RollingWindow, ObjectGroup, RefreshTokens, ServiceDiscovery, CodeMerge, TLC

CONSTANTS Parts, w1, w2, i1, i2, i3
VARIABLE part

MCValues    == {0, 1}
MCResolvers == {w1, w2}
MCInstances == {i1, i2, i3}
MCUsable    == {i1, i2}
MCLists     == {{}, {i1}, {i3}, {i2, i3}}

Decl(k, ns, t)   == [kind |-> k, names |-> ns, text |-> t, within |-> <<>>,
                     members |-> <<>>, interfaces |-> {}, group |-> FALSE, locals |-> {}]
Struct(n, fs, t) == [Decl("type", <<n>>, t) EXCEPT !.members = n :> fs]
Interface(n, ms, t) == [Struct(n, ms, t) EXCEPT !.interfaces = {n}]
Func(ns, ls, t)  == [Decl("func", ns, t) EXCEPT !.locals = ls]
TypeGroup(ns, t) == [Decl("type", ns, t) EXCEPT !.group = TRUE]

MCUserDecls ==
  { Struct("A", {"f"}, "user"), Decl("type", <<"B">>, "user"), TypeGroup(<<"B", "C">>, "user"),
    Func(<<"M", "A">>, {}, "user"), Func(<<"F">>, {"v"}, "user"), Func(<<"init">>, {}, "user"),
    Decl("var", <<"_">>, "user"), Decl("const", <<"k">>, "user"),
    Interface("I", {"io.Reader"}, "user"), Struct("A", {"sync.Mutex"}, "user") }

MCGenFiles ==
  { {Decl("import", <<"path">>, "g1"), Struct("A", {"f", "g"}, "g1"), Decl("var", <<"_">>, "g1"),
     Func(<<"M", "A">>, {}, "g1"), Func(<<"N", "A">>, {}, "g1")},
    {Struct("A", {"h", "gorm.Model"}, "g2"), Decl("const", <<"k">>, "g2"), Decl("var", <<"v">>, "g2"),
     Func(<<"M", "A">>, {"w"}, "g2"), Func(<<"F">>, {}, "g2")},
    {Decl("type", <<"B">>, "g3"), Interface("I", {"m", "io.Closer"}, "g3"), Func(<<"F">>, {"w"}, "g3"), Func(<<"init">>, {}, "g3")},
    {TypeGroup(<<"A", "B">>, "g4")},
    {[TypeGroup(<<"A">>, "g5") EXCEPT !.members = "A" :> {"f"}]},
    {Func(<<"p">>, {}, "g6"), Func(<<"q">>, {}, "g6"), Struct("I", {"m"}, "g6"),
     InParentheses(Decl("var", <<"_">>, "g6"))} }
MCForeign == {"io.Reader", "io.Closer", "sync.Mutex", "gorm.Model"}

sharedVars == <<part, windowVars, groupVars, tokenVars, discoveryVars, mergeVars>>

(* The choices of a component that is not running are fixed. *)
SharedInit ==
  /\ part \in Parts
  /\ WindowInit /\ GroupInit /\ TokensInit /\ DiscoveryInit /\ MergeInit
  /\ part # "tokens" => kind = "memory"
  /\ part # "discovery" => catalog.list = {}

SharedNext ==
  \/ /\ part = "window" /\ WindowNext
     /\ UNCHANGED <<part, groupVars, tokenVars, discoveryVars, mergeVars>>
  \/ /\ part = "group" /\ GroupNext
     /\ UNCHANGED <<part, windowVars, tokenVars, discoveryVars, mergeVars>>
  \/ /\ part = "tokens" /\ TokensNext
     /\ UNCHANGED <<part, windowVars, groupVars, discoveryVars, mergeVars>>
  \/ /\ part = "discovery" /\ DiscoveryNext
     /\ UNCHANGED <<part, windowVars, groupVars, tokenVars, mergeVars>>
  \/ /\ part = "merge" /\ MergeNext
     /\ UNCHANGED <<part, windowVars, groupVars, tokenVars, discoveryVars>>

SharedSpec ==
  /\ SharedInit /\ [][SharedNext]_sharedVars
  /\ \A w \in Resolvers :
       /\ WF_discoveryVars(part = "discovery" /\ ResolveStep(w))
       /\ WF_discoveryVars(part = "discovery" /\ LoopStep(w))
       /\ WF_discoveryVars(part = "discovery" /\ Stop(w))
       /\ SF_discoveryVars(part = "discovery" /\ WatchLock(w))
       /\ WF_discoveryVars(part = "discovery" /\ WatchStep(w))
=============================================================================
