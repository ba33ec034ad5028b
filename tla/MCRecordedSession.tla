-------------------------- MODULE MCRecordedSession --------------------------
EXTENDS RecordedSession

(* The n-th payload of a session: every byte of it can be told apart.      *)
PayloadOf(type, size, n) == <<type>> \o [k \in 1 .. size - 1 |-> 100 * n + k]

(* An order added and one deleted, a message of an unknown type ('K'), an  *)
(* execution one byte short, and one too large for a datagram here.        *)
Kinds == {<<65, 36>>, <<68, 19>>, <<75, 22>>, <<69, 30>>, <<75, 63>>}
Good == {<<65, 36>>, <<68, 19>>}

Session0 == [i \in 1 .. 10 |-> 0]
PayloadsOf(kinds) == [n \in DOMAIN kinds |-> PayloadOf(kinds[n][1], kinds[n][2], n)]

(* A marker; nothing; half a length; half a payload.                       *)
Endings == {<<0, 0>>, <<>>, <<0>>, <<0, 5, 65>>}

FilesOf(sessions, endings, devices) ==
  {RecordedFile(PayloadsOf(kinds), ending, fails) :
     kinds \in sessions, ending \in endings, fails \in devices}

MCFiles ==
  FilesOf(BoundedSeq(Kinds, 2), Endings, BOOLEAN)
    \cup FilesOf([1 .. 3 -> Kinds], {<<>>}, {FALSE})
    \cup FilesOf({<<<<layout.type, layout.size>>>> : layout \in Layouts}, {<<0, 0>>}, {FALSE})
    \cup FilesOf({[n \in 1 .. 10 |-> <<68, 19>>]}, {<<0, 0>>}, {FALSE})

MCGapFiles ==
  FilesOf({[n \in 1 .. 5 |-> <<68, 19>>],
           <<<<65, 36>>, <<69, 30>>, <<68, 19>>, <<68, 19>>>>,
           <<<<65, 36>>, <<75, 63>>, <<68, 19>>, <<68, 19>>>>}, {<<>>, <<0, 0>>}, {FALSE})
    \cup FilesOf({<<<<65, 36>>, <<68, 19>>>>}, {<<0>>, <<0, 5, 65>>}, BOOLEAN)

Span == {<<i, j>> \in (1 .. 5) \X (1 .. 5) : i <= j}
MCScripts == {s \in [records : {3, 5}, ranges : BoundedSeq(Span, 2)] : Accepted(s)}

MCBody == UNION {ToSet(f.payloads) : f \in MCGapFiles}
MCDecodable == {b \in MCBody : Dispatches(b)}
=============================================================================
