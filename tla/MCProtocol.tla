------------------------------ MODULE MCProtocol ------------------------------
(***************************************************************************)
(* Conversations in base 4 with numbers up to 6, keys of two characters    *)
(* and blocks of two bytes: every short stream, and streams of whole       *)
(* requests, legal and not.                                                *)
(***************************************************************************)
EXTENDS ProtocolSession

MCDigits == <<"0", "1", "2", "3">>

\* A line of words, each behind `gap`.
Joined(words, gap) == FoldLeft(LAMBDA line, word : line \o gap \o word, <<>>, words)
Spaced(words) == SubSeq(Joined(words, <<"sp">>), 2, Len(Joined(words, <<"sp">>)))

W(word) == <<word>>
k   == W("k")
kk  == <<"k", "k">>
bad == {<<"k", "k", "k">>, <<"ctl">>}

Gets == {<<W("get")>> \o keys : keys \in {<<>>} \cup
            UNION {[1..n -> {k, kk, W("get")} \cup bad] : n \in 1..2}}
        \cup {<<W("get"), k, kk, k, k, kk, k>>}

Numbers == {W("0"), W("k"), <<"1", "2">>, <<"1", "3">>}
Sets == {<<W("set"), key, f, e, n>> :
            key \in {kk} \cup bad, f \in Numbers, e \in Numbers,
            n \in {W("0"), W("k"), <<"1", "3", "0">>, <<"1", "3", "2">>}}

Others ==
    {<<W(c)>> \o args : c \in {"delete", "touch", "version", "quit", "k"},
        args \in {<<>>, <<k>>, <<k, W("1")>>, <<k, <<"2", "0">> >>, <<k, W("noreply")>>,
                  <<W("noreply")>>, <<k, W("1"), W("noreply")>>, <<W("ctl"), W("1")>>}}

\* Whatever a line says, how it ends and what follows it.
Lines ==
    {Spaced(words) \o tail : words \in Gets \cup Sets \cup Others,
                             tail \in {CRLF \o CRLF, CRLF \o <<"version">> \o CRLF}}
    \cup {Spaced(<<W("get"), k>>) \o tail : tail \in {W("LF"), <<"CR", "k">>, W("CR")}}
    \cup {Joined(<<W("get"), k, kk>>, <<"sp", "sp">>) \o <<"sp">> \o CRLF,
          <<"sp">> \o CRLF,
          Spaced(<<W("set"), k, k, k, k, k, k>>) \o CRLF}

\* Blocks of any bytes behind an announced length, and a request behind them.
Blocks ==
    {Spaced(<<W("set"), k, W("1"), W("3"), W(n)>> \o more) \o CRLF \o bytes \o tail :
        n \in {"0", "1", "2"}, more \in {<<>>, <<W("noreply")>>, <<k>>},
        bytes \in UNION {[1..i -> {"k", "CR", "LF"}] : i \in 0..2},
        tail \in {<<>>, CRLF, CRLF \o Spaced(<<W("get"), kk>>) \o CRLF, <<"CR">>}}

Short == UNION {[1..n -> {"get", "quit", "k", "sp", "CR", "LF"}] : n \in 0..4}

MCStreams == Short \cup Lines \cup Blocks

MCValues == {<<0, <<>> >>, <<6, CRLF>>}
MCTexts  == {<<"k", "sp", "k">>, <<"k", "CR", "LF">>, <<>>}
=============================================================================
