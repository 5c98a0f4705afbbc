------------------------------- MODULE MCFctRun -------------------------------
(* Test programs of up to two suites of up to three tests, in families: the *)
(* checks of the fixtures, the conditions of the _IF macros, the command    *)
(* line, and the number of failures.                                        *)
EXTENDS FctRun, TLC

MCLoggerTypes == (<<"s">> :> "standard") @@ (<<"m">> :> "minimal") @@ (<<"j">> :> "junit")
MCDefaultLogger == <<"s">>

Chk(ok) == [kind |-> "chk", ok |-> ok]
Req(ok) == [kind |-> "req", ok |-> ok]

Passes == <<Chk(TRUE), Req(TRUE)>>
Fails == <<Chk(FALSE), Chk(TRUE)>>
Leaves == <<Req(FALSE), Chk(FALSE)>>

T(name, cond, body) == [name |-> name, cond |-> cond, body |-> body]
S(cond, setup, teardown, ts_) ==
  [cond |-> cond, setup |-> setup, teardown |-> teardown, tests |-> ts_]
P(args, expected, suites) == [args |-> args, expected |-> expected, suites |-> suites]

Option(option, text, value) == [option |-> option, text |-> text, value |-> value]
LoggerIs(name) == <<Option("logger", <<"l">>, name)>>
Filter(text) == <<Option("none", text, <<>>)>>

Blocks == {<<>>, <<Chk(TRUE)>>, <<Chk(FALSE)>>, <<Req(TRUE), Chk(FALSE)>>, <<Req(FALSE)>>,
           <<Req(FALSE), Req(FALSE)>>, NoBlock}
Twice == <<T(<<"a">>, "none", Passes), T(<<"b">>, "none", Leaves)>>
Conds == {"none", "yes", "no"}

FixturePrograms ==
  {P(LoggerIs(l), 0, <<S("none", <<>>, <<>>, Twice), S("none", a, b, Twice)>>) :
     l \in {<<"s">>, <<"j">>}, a \in Blocks, b \in Blocks}
  \cup {P(<<>>, 0, <<S("none", a, b, Twice)>>) : a \in Blocks, b \in Blocks}

ConditionPrograms ==
  {P(LoggerIs(l), 0, <<S(c, <<>>, b, <<T(<<"a">>, d, Passes), T(<<"b">>, e, Fails)>>),
                       S("none", <<>>, <<>>, <<T(<<"c">>, f, Fails), T(<<"d">>, "none", Passes)>>)>>) :
     l \in {<<"s">>, <<"j">>}, b \in {<<>>, <<Chk(FALSE)>>},
     c \in Conds, d \in Conds, e \in Conds, f \in Conds}

Prefixed == <<T(<<"a", "b">>, "none", Passes), T(<<"a", "c">>, "none", Fails), T(<<"d">>, "none", Fails)>>

Arguments ==
  {<<>>, Filter(<<"a">>), Filter(<<"a", "c">>) \o Filter(<<"d">>), Filter(<<"a", "c", "e">>),
   Filter(<<>>), LoggerIs(<<>>), LoggerIs(<<>>) \o Filter(<<"m">>), LoggerIs(<<"x">>),
   LoggerIs(<<>>) \o LoggerIs(<<"m">>), LoggerIs(<<"m">>) \o Filter(<<"a">>),
   <<Option("help", <<"h">>, <<>>)>>, Filter(<<"a">>) \o <<Option("version", <<"v">>, <<>>)>>}

ArgumentPrograms ==
  {P(args, 0, <<S("none", <<>>, <<>>, Prefixed), S("none", <<>>, <<>>, <<>>)>>) : args \in Arguments}

FailurePrograms ==
  {P(LoggerIs(l), expected, <<S("none", <<>>, <<>>, <<T(<<"a">>, "none", x), T(<<"b">>, "none", y)>>),
                              S("none", <<>>, <<>>, <<T(<<"c">>, "none", z)>>)>>) :
     l \in {<<"s">>, <<"j">>, <<"m">>}, expected \in 0..2,
     x \in {Passes, Fails, Leaves}, y \in {Passes, Fails}, z \in {Passes, Fails}}

MCPrograms == FixturePrograms \cup ConditionPrograms \cup ArgumentPrograms \cup FailurePrograms
=============================================================================
