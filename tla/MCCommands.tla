----------------------------- MODULE MCCommands -----------------------------
(***************************************************************************)
(* Groups of commands, explored side by side in one run: the trades of     *)
(* gold and coin, the aliases behind the dispatcher, the blacklist, and    *)
(* /addsticker, whose arguments are longer in a part of their own.  They   *)
(* share nothing; part says which of them moves, the others stay in one of *)
(* their initial states.                                                   *)
(***************************************************************************)
EXTENDS TradePortfolio, Aliases, BlacklistRules, StickerPack

CONSTANTS h1, h2, p1, p2

VARIABLE part

commandVars == <<part, vars, aliasVars, ruleVars, stickerVars>>

\* Two handlers, of one container or of two; amounts are below and at the dust.
MCPlacements == {[x \in {h1, h2} |-> p1], [x \in {h1, h2} |-> IF x = h1 THEN p1 ELSE p2]}
-----------------------------------------------------------------------------
\* The sender is the owner, an admin, anyone, or absent.
T(n, c) == [name |-> n, caps |-> c]
Gif == [kind |-> "animation", fields |-> {"animation", "document"}]
Note == [kind |-> "video_note", fields |-> {"video_note"}]
Poll == [kind |-> "poll", fields |-> {"poll"}]
MCContents == {Gif, Note}

Cmd(n, v) == [name |-> n, vis |-> v]
Tap(n, c, v) == [name |-> n, chars |-> c, vis |-> v]
Plain(cmds, taps) == [cmds |-> cmds, taps |-> taps, crons |-> {}, fallback |-> FALSE, inline |-> FALSE]
MCCatalog == [alias |-> [cmds |-> {Cmd("alias", "public"), Cmd("insert", "public"), Cmd("unalias", "public")},
                         taps |-> {}, crons |-> {}, fallback |-> TRUE, inline |-> TRUE],
              party |-> Plain({Cmd("cheer", "protected"), Cmd("secret", "private")}, {Tap("p:", <<"p", ":">>, "private")}),
              poker |-> Plain({}, {Tap("p:q", <<"p", ":", "q">>, "public")}),
              stock |-> [Plain({}, {Tap("s:", <<"s", ":">>, "public")}) EXCEPT !.crons = {"prices"}],
              other |-> [Plain({Cmd("cheer", "public")}, {}) EXCEPT !.crons = {"prices"}],
              twin |-> [Plain({}, {}) EXCEPT !.inline = TRUE]]
MCDeploys == {<<"alias">>, <<"alias", "party", "stock">>, <<"party", "poker">>, <<"poker", "party", "alias">>,
              <<"stock", "other">>, <<"party", "other">>, <<"alias", "twin">>, <<"alias", "alias">>, <<"alias", "typo">>}

Msg(from, typed, arg, reply) ==
  [kind |-> "message", from |-> from, typed |-> typed, arg |-> arg, reply |-> reply]
MCUpdates ==
  {Msg(1, <<T("alias", FALSE)>>, a, r) : a \in {T("cheer", TRUE), T("cheer", FALSE)}, r \in {Gif, Note}}
  \cup {Msg(1, <<T("alias", FALSE)>>, T("secret", FALSE), Gif), Msg(1, <<T("alias", FALSE)>>, T(Unnamed, FALSE), Gif),
        Msg(1, <<T("alias", FALSE)>>, T("cheer", FALSE), Poll)}
  \cup {Msg(1, <<T("unalias", FALSE)>>, T("cheer", TRUE), Free), Msg(1, <<T("insert", TRUE)>>, T("cheer", TRUE), Free)}
  \cup {Msg(f, <<t>>, T(Unnamed, FALSE), Free) : f \in {0, 1, 2, 3}, t \in {T("cheer", TRUE), T("secret", FALSE)}}
  \cup {Msg(2, <<T("cheer", FALSE), T("secret", FALSE)>>, T(Unnamed, FALSE), Free)}
  \cup {[kind |-> "callback", from |-> f, data |-> d] : f \in {1, 2}, d \in {<<"p", ":", "q">>, <<"s", ":", "1">>}}
  \cup {[kind |-> "inline", from |-> 1, query |-> q] : q \in {Unnamed, "cheer"}}
-----------------------------------------------------------------------------
\* A group, its first topic, a reply chain in the group, and a chat whose id and
\* thread read the same without the separators.
At2(chat, thread, topic) == [chat |-> chat, thread |-> thread, topic |-> topic]
MCPlaces == {At2(<<"1">>, <<"0">>, FALSE), At2(<<"1">>, <<"1", "0">>, TRUE),
             At2(<<"1">>, <<"1", "0">>, FALSE), At2(<<"1", "1">>, <<"0">>, FALSE)}

\* "aa" and "xaa"; the same in another spelling; and texts the keys escape.
MCTyped == {<<"a", "a">>, <<"x", "a", "a">>, <<" ", "X", "A", "a", " ">>, <<"%", "2", "f">>,
            <<"x", "acute", "/", ":">>}
MCChecked == UNION {[1..n -> {"a", "x"}] : n \in 2..3}
             \cup {<<"a", "a", "x", "a", "a">>, <<"x", "a", "a", "a">>, <<"x-acute", "/", ":">>, <<"%", "2", "f", "/">>}
-----------------------------------------------------------------------------
\* The initial state in which a part waits that does not move.
TradeRest   == Init /\ kind = "gold" /\ proc = [x \in Handlers |-> p1]
AliasRest   == AliasInit /\ deploy = <<"alias">>
StickerRest == StickerInit /\ owner = CHOOSE o \in Owners : TRUE

CommandsInit ==
  \/ part = "trade" /\ Init /\ AliasRest /\ BlacklistInit /\ StickerRest
  \/ part = "alias" /\ TradeRest /\ AliasInit /\ BlacklistInit /\ StickerRest
  \/ part = "blacklist" /\ TradeRest /\ AliasRest /\ BlacklistInit /\ StickerRest
  \/ part = "sticker" /\ TradeRest /\ AliasRest /\ BlacklistInit /\ StickerInit
  \/ part = "emoji" /\ TradeRest /\ AliasRest /\ BlacklistInit /\ StickerRest

CommandsNext ==
  \/ part = "trade" /\ Next /\ UNCHANGED <<part, aliasVars, ruleVars, stickerVars>>
  \/ part = "alias" /\ AliasNext /\ UNCHANGED <<part, vars, ruleVars, stickerVars>>
  \/ part = "blacklist" /\ BlacklistNext /\ UNCHANGED <<part, vars, aliasVars, stickerVars>>
  \/ part = "sticker" /\ StickerNext /\ UNCHANGED <<part, vars, aliasVars, ruleVars>>
  \/ part = "emoji" /\ TypeRune /\ UNCHANGED <<part, vars, aliasVars, ruleVars, configVars, known, pack, handlerVars>>

\* The fairness of the trades; the other parts promise safety only.
CommandsSpec == /\ CommandsInit /\ [][CommandsNext]_commandVars
                /\ \A x \in Handlers : WF_vars(Step(x))
-----------------------------------------------------------------------------
\* The properties that take long to evaluate, where they can change.

\* Every update has one receiver (module.go: "one callback reaches one owner").
UpdatesHaveOneReceiver == part = "alias" => OneReceiver

\* The rules of a thread are those added there (scope.go: "the third ':' always
\* ends the prefix").
ThreadRulesAreKept == part = "blacklist" => RulesStayInThread

\* A verdict is what the rules of the thread say (match.go).
ThreadVerdictIsRight == part = "blacklist" => VerdictIsRight

\* What /addsticker accepts as emoji, Telegram can take (sticker_emoji.go).
StickerEmojiAreValid == part = "emoji" => EmojiAreValid
=============================================================================
