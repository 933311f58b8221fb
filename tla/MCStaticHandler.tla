-------------------------- MODULE MCStaticHandler ---------------------------
(***************************************************************************)
(* Instances of StaticHandler.                                             *)
(***************************************************************************)
EXTENDS StaticHandler, TLC

Symmetry == Permutations(Cookies)

MCTokens ==
  Cookies \cup {"=", ";", "&", " ", ",", "\r", "login", "username", "password", "u", "v", "p", "q", "x", "y"}

User(name, password) == name \o <<",">> \o password

\* One good list, with a ',' in a password, and each way for one to be bad.
MCUserLists ==
  {<<User(<<"u">>, <<"p">>), User(<<"v">>, <<"q", ",", ";">>)>>,
   <<>>, <<<<"u">>>>, <<User(<<"u">>, <<"p">>), User(<<"u">>, <<"q">>)>>}

\* Up to two pairs, a login with a cookie of this server, or with that and the
\* '\r' of the last header, or with another value, among them or not.
MCCookieLists ==
  LET other == {<<>>, <<Pair(<<"x">>, <<>>)>>, <<Pair(<<"x">>, <<"login", "=", "y">>)>>}
      values == {<<c>> : c \in Cookies} \cup {<<c, "\r">> : c \in Cookies} \cup {<<"y">>}
      login == {<<Pair(<<"login">>, v)>> : v \in values}
  IN  other \cup {s \o l : s \in other, l \in login} \cup {l \o s : s \in other, l \in login}
        \cup {l \o m : l, m \in login}

\* Up to two fields, and three different ones in any order.
MCForms ==
  LET fields == {Pair(<<"username">>, <<"u">>), Pair(<<"username">>, <<"v">>),
                 Pair(<<"password">>, <<"p">>), Pair(<<"password">>, <<"q", ",", ";">>),
                 Pair(<<"x">>, <<>>)}
      three == {Pair(<<"username">>, <<"v">>), Pair(<<"password">>, <<"q", ",", ";">>),
                Pair(<<"x">>, <<>>)}
  IN  BoundedSeq(fields, 2) \cup {s \in SeqOf(three, 3) : ToSet(s) = three}

=============================================================================
