------------------------------ MODULE MCSession ------------------------------
(***************************************************************************)
(* Two functions, one that is not there, an address and a line; lines the  *)
(* user types, and scripts; every command line of up to five of six        *)
(* strings.                                                                *)
(***************************************************************************)
EXTENDS Session

foo == [type |-> "symbol", text |-> "foo"]
bar == [type |-> "symbol", text |-> "bar"]
far == [type |-> "symbol", text |-> "far"]
addr == [type |-> "addr", text |-> "0x40"]
line == [type |-> "lineno", text |-> "a.c:7"]
\* None begins another of its type.
MCDescs == {foo, bar, far, addr, line}
OwnOnly == [d \in MCDescs |-> {d}]
\* Two files have a static function foo.
Twins == [d \in MCDescs |-> IF d = foo THEN 2 ELSE IF d = far THEN 0 ELSE 1]

\* "start" sources others with lines still to read, "again" itself.
File(s) == [type |-> "file", text |-> s]
L(w, a) == [word |-> w, args |-> a]
MCScripts == ("start" :> << Comment, L("run", <<>>), L("source", <<File("again")>>), L("c", <<>>) >>) @@
             ("again" :> << L("source", <<File("again")>>), L("delete", <<ById(1)>>), L("ba", <<>>) >>)
MCTyped == { L("break", <<foo, far, addr>>), L("b", <<line>>), L("break", <<>>),
             L("delete", <<bar, foo>>), L("delete", <<ById(2), addr>>), L("d", <<>>),
             L("disable", <<bar>>), L("disable", <<ById(1)>>), L("disable", <<>>),
             L("enable", <<addr, ById(7)>>), L("enable", <<>>),
             L("c", <<>>), L("run", <<>>), L("restart", <<>>), L("finish", <<>>), L("n", <<>>), L("step", <<>>),
             L("stepi", <<>>), L("s", <<>>),
             L("source", <<File("start")>>), L("source", <<>>), L("list", <<>>), L("reg", <<>>),
             L("exit", <<>>), L("zz", <<>>) }

\* foo begins foobar: what is typed there.
foobar == [type |-> "symbol", text |-> "foobar"]
PrefixDescs == {foo, foobar}
PrefixCovers == [d \in PrefixDescs |-> {foo, d}]
PrefixFound == [d \in PrefixDescs |-> 1]
PrefixTyped == { L("break", <<foo, foobar>>), L("delete", <<foobar>>) }

MCStrings == {"-ex", "--script", "-h", "-v", "run", "start"}
MCArgvs == UNION {[1 .. n -> MCStrings] : n \in 1 .. 5}
MCLineOf == ("run" :> L("run", <<>>)) @@ ("start" :> L("start", <<>>))
MCWords == {"delete", "ena", "break", "disas"}
MCTexts == {"", "f", "a", "1"}

=============================================================================
