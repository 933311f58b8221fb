---------------------------- MODULE LoginFields -----------------------------
(***************************************************************************)
(* How StaticHandler takes apart the texts it is given: the Cookie header  *)
(* of a request, the body of a login, and the lines of an                  *)
(* authentication_list.  A text is a sequence of tokens: the characters    *)
(* '=', ';', '&', ',' and ' ', and words that contain none of these.       *)
(***************************************************************************)
EXTENDS Integers, Sequences, SequencesExt, FiniteSetsExt

Pair(key, value) == [key |-> key, value |-> value]

\* std::string::find.  npos is one more than the length: where substr ends when
\* it is given npos, and more than any position.
NextIn(s, c, start) == Min({k \in start..Len(s) : s[k] = c} \cup {Len(s) + 1})

Npos(s) == Len(s) + 1

\* The value of the first "login=" in a Cookie header.  The pairs are taken to
\* lie two characters apart, and one without '=' is skipped.
LoginCookie(s) ==
  LET login[prev \in 1..(Len(s) + 2)] ==
        LET separation == NextIn(s, ";", IF prev = 1 THEN 1 ELSE prev + 1)
            equal == NextIn(s, "=", prev)
        IN  IF equal < separation /\ SubSeq(s, prev, equal - 1) = <<"login">>
            THEN SubSeq(s, equal + 1, separation - 1)
            ELSE IF separation = Npos(s) THEN <<>> ELSE login[separation + 2]
  IN  login[1]

\* Variant: the end of a value is not looked for again with '&'.
FormFields_Semicolon(s) ==
  LET fields[prev \in 1..(Len(s) + 1)] ==
        LET separation == NextIn(s, IF prev = 1 THEN "&" ELSE ";", IF prev = 1 THEN 1 ELSE prev + 1)
            equal == NextIn(s, "=", prev)
            next == IF separation = Npos(s) THEN <<>> ELSE fields[separation + 1]
            pair == Pair(SubSeq(s, prev, equal - 1), SubSeq(s, equal + 1, separation - 1))
        IN  IF equal >= separation THEN next
            ELSE IF pair.key \in {<<"username">>, <<"password">>} THEN <<pair>> \o next
            ELSE <<pair>>
  IN  fields[1]

\* The pairs in the body of a login, up to the first of an unknown name.  After
\* the first pair the loop looks for ';' to tell whether another '=' belongs to
\* this pair, and for '&' once it knows the name.
FormFields(s) ==
  LET fields[prev \in 1..(Len(s) + 1)] ==
        LET separation == NextIn(s, IF prev = 1 THEN "&" ELSE ";", IF prev = 1 THEN 1 ELSE prev + 1)
            equal == NextIn(s, "=", prev)
            key == SubSeq(s, prev, equal - 1)
            end == NextIn(s, "&", prev + 1)
            from(k) == IF k = Npos(s) THEN <<>> ELSE fields[k + 1]
        IN  IF equal >= separation THEN from(separation)
            ELSE IF key \in {<<"username">>, <<"password">>}
            THEN <<Pair(key, SubSeq(s, equal + 1, end - 1))>> \o from(end)
            ELSE <<Pair(key, <<>>)>>
  IN  fields[1]

HasUnknownField(fields) ==
  \E k \in DOMAIN fields : fields[k].key \notin {<<"username">>, <<"password">>}

\* The last one counts; without any it is empty.
FieldOf(fields, key) ==
  LET k == SelectLastInSeq(fields, LAMBDA f : f.key = key)
  IN  IF k = 0 THEN <<>> ELSE fields[k].value

-----------------------------------------------------------------------------
\* init_authentication_database: a line is split at its first comma.

Username(line) == SubSeq(line, 1, NextIn(line, ",", 1) - 1)
Password(line) == SubSeq(line, NextIn(line, ",", 1) + 1, Len(line))

\* Every line has a comma, no user comes twice, and there are users at all.
IsDatabase(lines) ==
  /\ lines # <<>>
  /\ \A k \in DOMAIN lines : "," \in ToSet(lines[k])
  /\ \A j, k \in DOMAIN lines : Username(lines[j]) = Username(lines[k]) => j = k

AccountsOf(lines) ==
  [u \in {Username(l) : l \in ToSet(lines)} |->
     Password(CHOOSE l \in ToSet(lines) : Username(l) = u)]
=============================================================================
