------------------------------- MODULE MCCodecs -------------------------------
(***************************************************************************)
(* The two codecs of the system side by side: an event through its rows    *)
(* (EventRows), or a connection's byte stream through the multiplexer      *)
(* (Wire).                                                                 *)
(***************************************************************************)
EXTENDS EventRows, Wire, TLC

\* One name under each prefix, and names that themselves begin with a prefix.
MCKeys == {<<"x">>, <<"app:", "x">>, <<"user:", "x">>, <<"temp:", "x">>,
           <<"app:", "user:", "x">>, <<"user:", "app:", "x">>, <<"app:", "temp:", "x">>}

MCLowerOf == [c \in {"listen", "unlisten", "x"} |-> c]
               @@ ("LISTEN" :> "listen") @@ ("X" :> "x")

-----------------------------------------------------------------------------
\* Statements

Cells(body) == [k |-> "cells", body |-> body]
Token(k, body) == [k |-> k, body |-> body]
Dollar(tag, body) == [k |-> "dollar", tag |-> tag, body |-> body]

\* What must not be taken for what it looks like, inside another token.
Listening == <<";", "listen", "sp", "x">>
Bodies == {<<>>, Listening, <<"'">> \o Listening, <<"\"", "\"">>, <<"$", "$">>, <<"-", "-">>,
           <<"/", "*">>, <<"*", "/">>, <<"nl">>}

Tokens ==
    {Token(k, b) : k \in {"literal", "quoted"}, b \in Bodies}
      \cup {Dollar(<<"x">>, b) : b \in Bodies}
      \cup {Dollar(<<>>, b) : b \in Bodies \ {<<"$", "$">>}}
      \cup {Dollar(<<>>, <<"$", "x", "$">> \o Listening)}
      \cup {Token("line", b) : b \in Bodies \ {<<"nl">>}}
      \cup {Token("block", b) : b \in Bodies \ {<<"/", "*">>, <<"*", "/">>}}
      \cup {Cells(<<"sp">>), Cells(<<"x", "sp">>), Cells(<<"$", "1">>), Cells(<<"-", "sp">>)}

\* LISTEN and UNLISTEN in every spelling.
Comments == {Token("line", Listening), Token("block", Listening)}
Name == {Cells(<<"x">>), Cells(<<"X", "1">>), Cells(<<"*">>), Token("quoted", <<"X">>),
         Token("quoted", <<"\"", ";">>), Token("quoted", <<>>)}
Listens ==
    {lead \o <<Cells(<<kw>>), sep, arg>> :
        lead \in {<<>>} \cup {<<c>> : c \in Comments \cup {Cells(<<"nl">>)}},
        kw \in {"listen", "unlisten", "LISTEN"},
        sep \in Comments \cup {Cells(<<"sp">>)},
        arg \in Name}

Plain == <<Cells(<<"listen">>), Cells(<<"sp">>), Cells(<<"X">>)>>

\* All but those that PostgreSQL would cut into other tokens: 'a''b' is one literal.
Texts == {t \in
    {<<l>> : l \in Listens} \cup {<<l, Plain>> : l \in Listens}
      \cup {<<<<a, b>>, Plain>> : a \in Tokens, b \in Tokens}
      \cup {<<Plain \o <<Cells(<<"sp">>), a>>, Plain>> : a \in Tokens}
      \cup {<<<<Cells(<<"listen", "x">>), Cells(<<"sp">>), Cells(<<"x">>)>>>>,
            <<<<Cells(<<"listen">>), Token("quoted", <<"X">>)>>>>} : LegalText(t)}

-----------------------------------------------------------------------------
\* Messages and replies

Msg(typ, body) == [typ |-> typ, bad |-> "no", body |-> body]
Query(text) == [typ |-> "Q", bad |-> "no", sql |-> text]
Parse(text) == [typ |-> "P", bad |-> "no", name |-> <<"x">>, sql |-> text]
Bad(how) == [typ |-> "D", bad |-> how, body |-> <<"b">>]

Startups == {<<Msg("v3", <<"b">>)>>, <<Msg("ssl", <<>>), Msg("v3", <<>>)>>,
             <<Msg("gss", <<>>), Msg("ssl", <<>>), Msg("v3", <<>>)>>}
Typed == {Query(<<<<Cells(<<"x">>)>>>>), Parse(<<Plain>>), Msg("D", <<"NUL">>), Msg("S", <<>>),
          Msg("X", <<>>), Bad("small"), Bad("large")}

MCScripts ==
    {hello \o <<m>> : hello \in Startups, m \in Typed}
      \cup {<<Msg("cancel", <<"b">>)>>, <<Msg("ssl", <<>>), Msg("cancel", <<"b">>)>>}
      \cup UNION {[1..n -> Typed] : n \in 1..3}
      \cup {<<Query(t)>> : t \in Texts} \cup {<<Parse(<<l>>)>> : l \in Listens}

Ready(s) == [typ |-> "Z", body |-> <<s>>]
Data == [typ |-> "D", body |-> <<"Z", 2, "I">>]
Note == [typ |-> "A", body |-> <<"pid", "x", "NUL", "p", "NUL">>, wellFormed |-> TRUE,
         note |-> [channel |-> <<"x">>, payload |-> <<"p">>]]
Torn == [typ |-> "A", body |-> <<"pid", "x", "NUL">>, wellFormed |-> FALSE]
BackendFrames == {Ready("I"), Ready("T"), Ready("E"), Data, Note, Torn, [typ |-> "Z", body |-> <<>>]}
MCReply ==
    {[frames |-> fs, tail |-> t] : fs \in UNION {[1..n -> BackendFrames] : n \in 1..3},
                                   t \in {<<>>, <<"Z", 2>>}}

\* Replies vary for one script; the others are about how they are cut up.
MCReplies(s) ==
    IF s = <<Parse(<<Plain>>), Msg("S", <<>>)>> THEN MCReply
    ELSE {[frames |-> <<Ready("I")>>, tail |-> <<>>]}

-----------------------------------------------------------------------------
\* One codec at a time: the other one stands still.
NoScript == <<Msg("S", <<>>)>>
CodecsInit ==
    \/ script = NoScript /\ WireInit /\ Init
    \/ ev = PlainEvent /\ pc = "idle" /\ rows = NoRows /\ out = PlainEvent /\ WireInit

CodecsNext ==
    \/ Next /\ UNCHANGED wireVars
    \/ pc = "idle" /\ WireNext /\ UNCHANGED vars

CodecsSpec == CodecsInit /\ [][CodecsNext]_<<vars, wireVars>>
=============================================================================
