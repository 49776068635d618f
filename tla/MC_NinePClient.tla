-------------------------- MODULE MC_NinePClient --------------------------
(* Small strings, entries and sizes for NinePClient.                       *)
EXTENDS NinePClient

DotU9P == <<9, 21>>
MCStrings == {DotU9P, <<5>>}
MCNoError == <<14>>
MCUnknownFid == <<21, 6>>
MCDatas == {<<1, 2, 3>>, [i \in 1 .. 90 |-> 1]}

SomeQid == [type |-> 1, vers |-> 2, path |-> <<1, 2, 3, 4, 5, 6, 7, 8>>]
MCQids == {SomeQid}
Entry(name, ext) ==
    [dtype |-> 0, dev |-> 0, qid |-> SomeQid, mode |-> 130, atime |-> 1, mtime |-> 2,
     length |-> <<3, 0, 0, 0, 0, 0, 0, 0>>, name |-> name, uid |-> <<7>>, gid |-> <<>>,
     muid |-> <<>>, ext |-> ext, uidnum |-> 1, gidnum |-> 2, muidnum |-> 129]
MCEntries == {Entry(<<5>>, <<>>), Entry(<<5, 6>>, <<9>>)}
=============================================================================
