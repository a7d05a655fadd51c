------------------------------- MODULE ObKey -------------------------------
(***************************************************************************)
(* The names of the order-book metrics (ob/ObKey.cpp).  A key string is    *)
(* the sequence of its dot-separated tokens: a word, a whole number, or    *)
(* the `A-B' that split(.., '-') takes apart.  A price that is printed     *)
(* with a '.' or a '-', the separators, falls apart into more tokens than  *)
(* it should have: prices here are naturals, of which those of seven and   *)
(* more digits do (1.23457e+06; a single digit and zeros, 2e+06, does not  *)
(* and is left out), as a fractional or a negative price would.            *)
(***************************************************************************)
EXTENDS Integers, Sequences, SequencesExt

Word(w) == <<"word", w>>
Num(n) == <<"num", n>>
Dash(a, b) == <<"dash", a, b>>

IsNum(tok) == tok[1] = "num"
IsDash(tok) == tok[1] = "dash"
IsWord(tok, words) == tok[1] = "word" /\ tok[2] \in words

Targets == {"price", "size", "orders", "notional"}
Reducers == {"sum", "avg", "min", "max", "count"}
SideNames == {"bid", "ask"}

\* No key: parseObKey() returns nullopt.
NoKey == [metric |-> "none"]

\* A price as operator<< prints it, six digits and no more.
Plain(p) == p < 1000000
Fraction == Word("fraction")
PxTokens(p) == IF Plain(p) THEN <<Num(p)>> ELSE <<Num(p \div 1000000), Fraction>>

BandTokens(a, b) ==
    IF Plain(b) THEN <<Dash(a, b)>>
    ELSE IF Plain(a) THEN <<Dash(a, b \div 1000000), Fraction>>
    ELSE <<Num(a \div 1000000), Fraction, Fraction>>

SpanTokens(k) == IF k.by = "levels" THEN <<Dash(k.a, k.b)>> ELSE BandTokens(k.a, k.b)

\* formatObKey(), without the mode.  A count names no target.
Tokens(k) ==
    CASE k.metric \in {"spread", "mid"} -> <<Word(k.metric)>>
      [] k.metric = "best" -> <<Word("best"), Word(k.side), Word(k.attr)>>
      [] k.metric = "level" -> <<Word("level"), Word(k.side), Num(k.n), Word(k.attr)>>
      [] k.metric = "at" -> <<Word("at"), Word(k.side)>> \o PxTokens(k.px) \o <<Word(k.attr)>>
      [] k.metric = "range" ->
            <<Word("range"), Word(k.side), Word(k.by)>> \o SpanTokens(k) \o <<Word(k.reduce)>>
            \o (IF k.reduce = "count" THEN <<>> ELSE <<Word(k.target)>>)
      [] k.metric = "cum" ->
            <<Word("cum"), Word(k.side), Word("levels"), Num(k.n), Word(k.attr)>>
      [] k.metric = "vwap" -> <<Word("vwap"), Word(k.side), Word(k.by)>> \o SpanTokens(k)
      [] k.metric = "imbalance" -> <<Word("imbalance"), Word(k.by)>> \o SpanTokens(k)
      [] k.metric = "meta" -> <<Word("meta"), Word(k.field)>>

Format(k) ==
    <<Word("ob")>> \o Tokens(k) \o (IF k.mode = "agg" THEN <<Word("agg")>> ELSE <<>>)

-----------------------------------------------------------------------------
(* parseObKey(): one operator per form, tried on the tokens after `ob'     *)

\* levels.A-B needs 1 <= A <= B, price.P1-P2 only P1 <= P2.
Spans(tok, by) == /\ IsDash(tok) /\ tok[2] <= tok[3]
                  /\ by = "levels" => tok[2] >= 1

\* vwap and imbalance also take levels.N for levels.1-N.
Span(tok, by) == IF by = "levels" /\ IsNum(tok) THEN Dash(1, tok[2]) ELSE tok

ParseBest(t) ==
    IF IsWord(t[2], SideNames) /\ IsWord(t[3], {"price", "size"})
    THEN [metric |-> "best", side |-> t[2][2], attr |-> t[3][2]] ELSE NoKey

ParseLevel(t) ==
    IF IsWord(t[2], SideNames) /\ IsNum(t[3]) /\ t[3][2] >= 1 /\ IsWord(t[4], Targets)
    THEN [metric |-> "level", side |-> t[2][2], n |-> t[3][2], attr |-> t[4][2]] ELSE NoKey

ParseAt(t) ==
    IF IsWord(t[2], SideNames) /\ IsNum(t[3]) /\ IsWord(t[4], Targets)
    THEN [metric |-> "at", side |-> t[2][2], px |-> t[3][2], attr |-> t[4][2]] ELSE NoKey

ParseRange(t) ==
    LET count == IsWord(t[5], {"count"})
    IN  IF /\ IsWord(t[2], SideNames) /\ Spans(t[4], t[3][2]) /\ IsWord(t[5], Reducers)
           /\ count \/ (Len(t) = 6 /\ IsWord(t[6], Targets))
        THEN [metric |-> "range", side |-> t[2][2], by |-> t[3][2], a |-> t[4][2], b |-> t[4][3],
              reduce |-> t[5][2], target |-> IF count THEN "none" ELSE t[6][2]]
        ELSE NoKey

ParseCum(t) ==
    IF IsWord(t[2], SideNames) /\ IsNum(t[4]) /\ t[4][2] >= 1 /\ IsWord(t[5], Targets)
    THEN [metric |-> "cum", side |-> t[2][2], n |-> t[4][2], attr |-> t[5][2]] ELSE NoKey

ParseVwap(t) ==
    IF Len(t) = 4 /\ IsWord(t[2], SideNames) /\ IsWord(t[3], {"levels", "price"})
    THEN LET r == Span(t[4], t[3][2])
         IN  IF Spans(r, t[3][2])
             THEN [metric |-> "vwap", side |-> t[2][2], by |-> t[3][2], a |-> r[2], b |-> r[3]]
             ELSE NoKey
    ELSE NoKey

ParseImbalance(t) ==
    IF Len(t) = 3 /\ IsWord(t[2], {"levels", "price"})
    THEN LET r == Span(t[3], t[2][2])
         IN  IF Spans(r, t[2][2])
             THEN [metric |-> "imbalance", by |-> t[2][2], a |-> r[2], b |-> r[3]] ELSE NoKey
    ELSE NoKey

\* `levels.bid' and `levels.ask', two tokens of the string, are one word here; any
\* first word that begins with `meta' is taken.
ParseMeta(t) == IF Len(t) = 2 THEN [metric |-> "meta", field |-> t[2][2]] ELSE NoKey

ParseMetric(t) ==
    CASE t \in {<<Word("spread")>>, <<Word("mid")>>} -> [metric |-> t[1][2]]
      [] Len(t) = 3 /\ t[1] = Word("best") -> ParseBest(t)
      [] Len(t) = 4 /\ t[1] = Word("level") -> ParseLevel(t)
      [] Len(t) = 4 /\ t[1] = Word("at") -> ParseAt(t)
      [] Len(t) \in {5, 6} /\ t[1] = Word("range") /\ IsWord(t[3], {"levels", "price"}) ->
            ParseRange(t)
      [] Len(t) = 5 /\ t[1] = Word("cum") /\ t[3] = Word("levels") -> ParseCum(t)
      [] Len(t) >= 4 /\ t[1] = Word("vwap") -> ParseVwap(t)
      [] Len(t) >= 2 /\ t[1] = Word("imbalance") -> ParseImbalance(t)
      [] Len(t) >= 1 /\ t[1] = Word("meta") -> ParseMeta(t)
      [] OTHER -> NoKey

\* A trailing `per' or `agg' is the mode.
Parse(t) ==
    IF t = <<>> \/ t[1] # Word("ob") THEN NoKey
    ELSE LET moded == Len(t) >= 2 /\ IsWord(Last(t), {"per", "agg"})
             key == ParseMetric(Tail(IF moded THEN Front(t) ELSE t))
         IN  IF key = NoKey THEN NoKey
             ELSE [mode |-> IF moded THEN Last(t)[2] ELSE "per"] @@ key

=============================================================================
