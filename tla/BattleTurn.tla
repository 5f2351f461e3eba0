----------------------------- MODULE BattleTurn -----------------------------
(***************************************************************************)
(* One single battle of the battle crate, call by call: `take_turn`, the  *)
(* two selected actions, the faints they leave behind, the end-of-turn     *)
(* pass, and `resolve_move_learn`, which answers a level-up prompt and     *)
(* then resumes whatever the prompt held back.                             *)
(*                                                                         *)
(* HP is a small number, a move is what it does to the two battlers, and   *)
(* every draw is a choice.  Stat stages, PP, items, the AI's scores and    *)
(* the wording of events are left out: they decide which of the choices    *)
(* below a turn takes, never what the engine does with it.                 *)
(***************************************************************************)
EXTENDS Naturals, Sequences, FiniteSets, SequencesExt

CONSTANTS
    Team,           \* the player's party in the caller's order
    Foes,           \* the opponent's party; a wild opponent is Foes[1]
    Capped,         \* the members already at MAX_LEVEL
    MaxHp,          \* a member's full HP
    SeriesAttempts, \* attempts of one Rollout series
    MaxPrompts      \* bound: move-learn prompts one award can raise

Side == {"player", "enemy"}
Other(s) == IF s = "player" THEN "enemy" ELSE "player"
Kinds == {"Wild", "FirstBattle", "Trainer"}
Outcomes == {"PlayerWon", "PlayerLost", "PlayerRan", "WildFled"}
Mons == ToSet(Team) \cup ToSet(Foes)

ASSUME PartiesAssumption ==
    /\ Team \in Seq(Mons) /\ Team # << >> /\ IsInjective(Team)
    /\ Foes \in Seq(Mons) /\ Foes # << >> /\ IsInjective(Foes)
    /\ ToSet(Team) \cap ToSet(Foes) = {}
    /\ Capped \subseteq ToSet(Team)
ASSUME SizesAssumption ==
    /\ MaxHp \in Nat \ {0}
    /\ SeriesAttempts \in Nat \ {0}
    /\ MaxPrompts \in Nat

VARIABLES
    kind,       \* BattleKind
    active,     \* the battler each side has out: `player`, `enemy`
    bench,      \* the rest of its party: `player_reserves`, `non_active`
    slot,       \* the active member's party position, counted from 0
    hp,         \* current HP of every member
    ailing,     \* the members poisoned or burned
    seeded,     \* the sides whose battler leech seed drains
    inLove,     \* the sides whose battler is infatuated with the other's
    lock,       \* attempts left of a multi-turn lock, 0 when free
    pending,    \* move-learn prompts the active player member still has to hear
    held,       \* `pending_residual_selection`: a prompt holds the pass back
    outcome,    \* `outcome`, "none" while undecided
    phase,      \* where the running call stands, "idle" between calls
    queue,      \* the sides whose turn in this phase is still to come
    fleeing,    \* the opponent selected Flee
    \* what the events of the battle add up to
    reported,   \* Fainted events, per member; 1 for one that started fainted
    paid,       \* ExpGained events, per defeated opponent
    money,      \* MoneyGained events
    passes,     \* end-of-turn passes of the latest turn
    courted,    \* who each infatuated battler fell for
    runner      \* who started the lock a side carries

party   == <<active, bench, slot>>
scratch == <<seeded, inLove, lock, courted, runner>>
told    == <<reported, paid, money>>
vars    == <<kind, party, hp, ailing, scratch, pending, held, outcome,
             phase, queue, fleeing, told, passes>>

Standing(s) == hp[active[s]] > 0
UsableBench(s) == {m \in ToSet(bench[s]) : hp[m] > 0}
Roster(s) == IF s = "player" THEN Team
             ELSE IF kind = "Trainer" THEN Foes ELSE <<Foes[1]>>

\* `player_members`, and the trainer's `candidates` around its active slot.
Members(s) == SubSeq(bench[s], 1, slot[s]) \o <<active[s]>>
              \o SubSeq(bench[s], slot[s] + 1, Len(bench[s]))

Init ==
    /\ kind \in Kinds
    /\ active = [s \in Side |-> Roster(s)[1]]
    /\ bench = [s \in Side |-> Tail(Roster(s))]
    /\ slot = [s \in Side |-> 0]
    /\ \E out \in SUBSET UNION {ToSet(bench[s]) : s \in Side} :
         hp = [m \in Mons |-> IF m \in out THEN 0 ELSE MaxHp]
    /\ ailing = {} /\ seeded = {} /\ inLove = {}
    /\ lock = [s \in Side |-> 0]
    /\ pending = 0 /\ held = FALSE /\ outcome = "none"
    /\ phase = "idle" /\ queue = << >> /\ fleeing = FALSE
    /\ reported = [m \in Mons |-> IF hp[m] = 0 THEN 1 ELSE 0]
    /\ paid = [m \in ToSet(Foes) |-> 0]
    /\ money = 0 /\ passes = 1
    /\ courted = active /\ runner = active

---------------------------------------------------------------------------
(* Submitting an action *)

\* Neither a prompt nor an outcome is waiting, so `take_turn` accepts.
Accepting == phase = "idle" /\ pending = 0 /\ outcome = "none"

CallUnchanged == UNCHANGED <<kind, party, hp, ailing, scratch, pending, held, told>>

\* The opponent's selection: only the scripted first battle's flees, and
\* not while a lock selects for it.
EnemyChooses ==
    \E flees \in BOOLEAN :
        /\ flees => /\ kind = "FirstBattle"
                    /\ lock["enemy"] = 0
                    /\ hp[active["player"]] < MaxHp
        /\ fleeing' = flees

\* A submitted move, or whatever was submitted by a locked battler.
TakeTurn ==
    /\ Accepting
    /\ EnemyChooses
    /\ queue' \in {<<"player", "enemy">>, <<"enemy", "player">>}
    /\ phase' = "acts"
    /\ passes' = 0
    /\ CallUnchanged /\ UNCHANGED outcome

\* Running is for wild battles, and for a Run Away holder in the first one.
RunAway ==
    /\ Accepting
    /\ kind # "Trainer"
    /\ lock["player"] = 0
    /\ passes' = 0
    /\ \/ /\ outcome' = "PlayerRan"
          /\ UNCHANGED <<phase, queue, fleeing>>
       \/ /\ kind = "Wild"
          /\ EnemyChooses
          /\ queue' = <<"enemy">>
          /\ phase' = "acts"
          /\ UNCHANGED outcome
    /\ CallUnchanged

---------------------------------------------------------------------------
(* A selected action runs *)

Minus(h, d) == IF d < h THEN h - d ELSE 0
Healed(h) == IF h < MaxHp THEN h + 1 ELSE h

\* The `settle_faint` calls of a script, in order: <<side, its HP then>>.
FellIn(calls) == {calls[i][1] : i \in {j \in DOMAIN calls : calls[j][2] = 0}}

\* A plausible slip: the series is stored once the move is over.
SettleFaintsThenLock(calls, locks) ==
    LET fell == FellIn(calls)
    IN  /\ reported' = [m \in Mons |-> reported[m] + Cardinality(
              {i \in DOMAIN calls : calls[i][2] = 0 /\ active[calls[i][1]] = m})]
        /\ seeded' = seeded \ fell
        /\ inLove' = inLove \ (fell \cup {Other(f) : f \in fell})
        /\ lock' = locks
        /\ UNCHANGED <<paid, money, courted>>

\* Every call on a battler at zero pushes Fainted and clears its scratch and
\* whatever the other battler felt for it.  `locks` are the locks so far.
SettleFaints(calls, locks) ==
    LET fell == FellIn(calls)
    IN  /\ reported' = [m \in Mons |-> reported[m] + Cardinality(
              {i \in DOMAIN calls : calls[i][2] = 0 /\ active[calls[i][1]] = m})]
        /\ seeded' = seeded \ fell
        /\ inLove' = inLove \ (fell \cup {Other(f) : f \in fell})
        /\ lock' = [s \in Side |-> IF s \in fell THEN 0 ELSE locks[s]]
        /\ UNCHANGED <<paid, money, courted>>

\* A plausible slip: an attacker its own recoil felled is answered too.
RetaliatesAnyway(own, skin) == skin > 0

\* Rough Skin answers a contact hit while its attacker still stands.
Retaliates(own, skin) == own > 0 /\ skin > 0

\* A damaging move: `calls` and `own` are what its script did to its user,
\* `skin` is the retaliation behind it.  Whoever still stands may end up
\* ailing; `settle_faint` also cures.
Lands(s, own, dealt, calls, skin, locks) ==
    LET t == Other(s)
        theirs == Minus(hp[active[t]], dealt)
        mine == IF Retaliates(own, skin) THEN Minus(own, skin) ELSE own
        all == calls \o << <<t, theirs>> >>
               \o (IF Retaliates(own, skin) THEN << <<s, mine>> >> ELSE << >>)
    IN  /\ hp' = [hp EXCEPT ![active[s]] = mine, ![active[t]] = theirs]
        /\ SettleFaints(all, locks)
        /\ \E sick \in SUBSET ({active[f] : f \in Side \ FellIn(all)} \ ailing) :
             ailing' = (ailing \cup sick) \ {active[f] : f \in FellIn(all)}

\* Struggle's recoil falls between the hit and the target's own faint.
HitMove(s) ==
    /\ lock[s] = 0
    /\ \E dealt \in 1..hp[active[Other(s)]], recoil \in 0..1, skin \in 0..1 :
         LET own == Minus(hp[active[s]], recoil)
         IN  Lands(s, own, dealt, IF recoil > 0 THEN << <<s, own>> >> ELSE << >>, skin, lock)
    /\ UNCHANGED runner

\* A drain heals its user, or hurts it through Liquid Ooze; the user's faint
\* is reported first.
DrainMove(s) ==
    /\ lock[s] = 0
    /\ \E dealt \in 1..hp[active[Other(s)]], oozes \in BOOLEAN, skin \in 0..1 :
         LET own == IF oozes THEN Minus(hp[active[s]], 1) ELSE Healed(hp[active[s]])
         IN  Lands(s, own, dealt, << <<s, own>> >>, skin, lock)
    /\ UNCHANGED runner

\* Each strike meets the target's contact ability at once; the loop stops
\* when either battler falls, and the target's faint is settled behind it.
MultiHitMove(s) ==
    /\ lock[s] = 0
    /\ \E strikes \in 1..hp[active[Other(s)]], skin \in 0..1 :
         LET own == Minus(hp[active[s]], skin * strikes)
         IN  /\ own > 0 \/ hp[active[s]] = skin * strikes
             /\ Lands(s, own, strikes, IF skin > 0 THEN << <<s, own>> >> ELSE << >>, 0, lock)
    /\ UNCHANGED runner

\* The attempts a landed attempt leaves; a free battler starts a series.
NextAttempt(left) == (IF left = 0 THEN SeriesAttempts ELSE left) - 1

RolloutMove(s) ==
    /\ \E dealt \in 1..hp[active[Other(s)]], skin \in 0..1 :
         Lands(s, hp[active[s]], dealt, << >>, skin, [lock EXCEPT ![s] = NextAttempt(@)])
    /\ runner' = IF lock[s] = 0 THEN [runner EXCEPT ![s] = active[s]] ELSE runner

\* A confused battler hits itself instead, which ends any series.
SelfHit(s) ==
    /\ \E hurt \in 1..hp[active[s]] :
         LET own == Minus(hp[active[s]], hurt)
         IN  /\ hp' = [hp EXCEPT ![active[s]] = own]
             /\ SettleFaints(<< <<s, own>> >>, [lock EXCEPT ![s] = 0])
             /\ ailing' = IF own = 0 THEN ailing \ {active[s]} ELSE ailing
    /\ UNCHANGED runner

AttractMove(s) ==
    /\ lock[s] = 0
    /\ Other(s) \notin inLove
    /\ inLove' = inLove \cup {Other(s)}
    /\ courted' = [courted EXCEPT ![Other(s)] = active[s]]
    /\ UNCHANGED <<hp, ailing, seeded, lock, runner, told>>

LeechSeedMove(s) ==
    /\ lock[s] = 0
    /\ seeded' = seeded \cup {Other(s)}
    /\ UNCHANGED <<hp, ailing, inLove, lock, courted, runner, told>>

\* Asleep, frozen, loafing, paralysed, lovestruck, missed or out of PP: some
\* of these keep a series, the others end it.
NothingLands(s) ==
    /\ lock' \in {lock, [lock EXCEPT ![s] = 0]}
    /\ UNCHANGED <<hp, ailing, seeded, inLove, courted, runner, told>>

BothCanAct == outcome = "none" /\ \A s \in Side : Standing(s)

\* The head of the turn order acts.
Act ==
    /\ phase = "acts" /\ BothCanAct
    /\ LET s == Head(queue)
       IN  \/ /\ s = "enemy" /\ fleeing
              /\ outcome' = "WildFled"
              /\ UNCHANGED <<hp, ailing, scratch, told>>
           \/ /\ ~(s = "enemy" /\ fleeing)
              /\ \/ HitMove(s) \/ DrainMove(s) \/ MultiHitMove(s) \/ RolloutMove(s)
                 \/ SelfHit(s) \/ AttractMove(s) \/ LeechSeedMove(s) \/ NothingLands(s)
              /\ UNCHANGED outcome
    /\ queue' = Tail(queue)
    /\ phase' = IF Len(queue) = 1 THEN "closing" ELSE "acts"
    /\ UNCHANGED <<kind, party, pending, held, fleeing, passes>>

\* The second action is dropped when the first felled someone or ended it.
SkipAction ==
    /\ phase = "acts" /\ ~BothCanAct
    /\ queue' = << >>
    /\ phase' = "closing"
    /\ UNCHANGED <<kind, party, hp, ailing, scratch, pending, held, outcome, fleeing, told, passes>>

---------------------------------------------------------------------------
(* Faints, rewards and replacements *)

\* A party position and an index of the bench name each other through the
\* active member's position, which the bench leaves out.
BenchIndex(s, position) == IF position < slot[s] THEN position + 1 ELSE position
PositionOf(s, index) == IF index - 1 < slot[s] THEN index - 1 ELSE index

\* A plausible slip: the two members trade places in the list.
OutgoingIndexTraded(s, position) == BenchIndex(s, position)

OutgoingIndex(s, position) == IF slot[s] < position THEN slot[s] + 1 ELSE slot[s]

\* The first reserve that still stands, and the positions a trainer may pick.
NextReserve(s) ==
    PositionOf(s, CHOOSE i \in DOMAIN bench[s] :
        /\ hp[bench[s][i]] > 0
        /\ \A j \in DOMAIN bench[s] : hp[bench[s][j]] > 0 => i <= j)
SwitchTargets(s) == {PositionOf(s, i) : i \in {j \in DOMAIN bench[s] : hp[bench[s][j]] > 0}}

\* `ins`, and also side s with the member at `position`.
Also(ins, s, position) ==
    [t \in DOMAIN ins \cup {s} |-> IF t = s THEN position ELSE ins[t]]

\* Each side in `ins` sends out the member at that position: the outgoing
\* member returns to its own position, the newcomer starts with clean scratch
\* and nobody stays in love with who left.
SendOut(ins) ==
    /\ active' = [s \in Side |-> IF s \in DOMAIN ins
          THEN bench[s][BenchIndex(s, ins[s])] ELSE active[s]]
    /\ bench' = [s \in Side |-> IF s \in DOMAIN ins
          THEN InsertAt(RemoveAt(bench[s], BenchIndex(s, ins[s])),
                        OutgoingIndex(s, ins[s]), active[s])
          ELSE bench[s]]
    /\ slot' = [s \in Side |-> IF s \in DOMAIN ins THEN ins[s] ELSE slot[s]]
    /\ seeded' = seeded \ DOMAIN ins
    /\ inLove' = {s \in inLove : {s, Other(s)} \cap DOMAIN ins = {}}
    /\ lock' = [s \in Side |-> IF s \in DOMAIN ins THEN 0 ELSE lock[s]]
    /\ UNCHANGED <<courted, runner>>

\* The fainted opponent is replaced, or the battle is won; `ins` is the
\* player's own replacement, sent out ahead of it.
SettleFaintedEnemy(ins) ==
    IF kind = "Trainer" /\ UsableBench("enemy") # {}
    THEN /\ \E position \in SwitchTargets("enemy") : SendOut(Also(ins, "enemy", position))
         /\ UNCHANGED <<outcome, money>>
    ELSE /\ outcome' = "PlayerWon"
         /\ money' = money + (IF kind = "Trainer" THEN 1 ELSE 0)
         /\ SendOut(ins)

\* A recipient at the level cap or at zero HP earns nothing.
Earns == active["player"] \notin Capped /\ Standing("player")

\* A plausible slip: after a double faint only the opponent is replaced.
RewardThenReplaceFoe ==
    /\ \E prompts \in IF Earns THEN 0..MaxPrompts ELSE {0} :
         /\ pending' = prompts
         /\ IF prompts > 0
            THEN UNCHANGED <<party, scratch, outcome, money>>
            ELSE SettleFaintedEnemy(<< >>)
    /\ paid' = IF Earns THEN [paid EXCEPT ![active["enemy"]] = @ + 1] ELSE paid
    /\ UNCHANGED reported

\* The award comes first, and the prompt it may raise holds back the rest.
RewardThenReplace ==
    /\ \E prompts \in IF Earns THEN 0..MaxPrompts ELSE {0} :
         /\ pending' = prompts
         /\ IF prompts > 0
            THEN UNCHANGED <<party, scratch, outcome, money>>
            ELSE SettleFaintedEnemy(
                   IF ~Standing("player") /\ kind = "Trainer" /\ UsableBench("enemy") # {}
                   THEN Also(<< >>, "player", NextReserve("player")) ELSE << >>)
    /\ paid' = IF Earns THEN [paid EXCEPT ![active["enemy"]] = @ + 1] ELSE paid
    /\ UNCHANGED reported

\* A plausible slip: an opponent that fell along with the party loses first.
PartyLostAlone == Standing("enemy") /\ ~Standing("player") /\ UsableBench("player") = {}

PartyLost == ~Standing("player") /\ UsableBench("player") = {}

\* `handle_fainted_mons`: a lost party decides first, then the opponent's
\* faint, then a replacement for the player alone.
HandleFaintedMons ==
    \/ /\ outcome # "none" \/ pending > 0 \/ \A s \in Side : Standing(s)
       /\ UNCHANGED <<party, scratch, pending, outcome, told>>
    \/ /\ outcome = "none" /\ pending = 0
       /\ \/ /\ PartyLost
             /\ outcome' = "PlayerLost"
             /\ UNCHANGED <<party, scratch, pending, told>>
          \/ /\ ~PartyLost /\ ~Standing("enemy")
             /\ RewardThenReplace
          \/ /\ ~PartyLost /\ Standing("enemy") /\ ~Standing("player")
             /\ SendOut(Also(<< >>, "player", NextReserve("player")))
             /\ UNCHANGED <<pending, outcome, told>>

\* `pass_turn`: behind the two actions, a prompt holds the pass back.
CloseActions ==
    /\ phase = "closing"
    /\ HandleFaintedMons
    /\ held' = (pending' > 0)
    /\ phase' = IF pending' > 0 THEN "idle" ELSE "pass"
    /\ UNCHANGED <<kind, hp, ailing, queue, fleeing, passes>>

\* A plausible slip: the pass runs whatever the outcome.
StartPassRegardless ==
    /\ phase = "pass"
    /\ phase' = "residual"
    /\ queue' \in {<<"player", "enemy">>, <<"enemy", "player">>}
    /\ passes' = passes + 1
    /\ UNCHANGED <<kind, party, hp, ailing, scratch, pending, held, outcome, fleeing, told>>

\* `residual_effects` compares the pair afresh, unless the battle is over.
StartPass ==
    /\ phase = "pass"
    /\ IF outcome # "none"
       THEN phase' = "settling" /\ UNCHANGED <<queue, passes>>
       ELSE /\ phase' = "residual"
            /\ queue' \in {<<"player", "enemy">>, <<"enemy", "player">>}
            /\ passes' = passes + 1
    /\ UNCHANGED <<kind, party, hp, ailing, scratch, pending, held, outcome, fleeing, told>>

FaintingDecides(s) == UsableBench(s) = {} \/ (s = "enemy" /\ kind # "Trainer")

\* One battler's end of turn: Leech Seed feeds the other, and felling its
\* victim skips the rest; poison or burn may fell it, and may decide.
ResidualOf(s) ==
    LET o == Other(s)
        drains == s \in seeded /\ Standing(o)
        sapped == IF drains THEN Minus(hp[active[s]], 1) ELSE hp[active[s]]
        fed == IF drains THEN Healed(hp[active[o]]) ELSE hp[active[o]]
        drained == IF drains THEN << <<s, sapped>>, <<o, fed>> >> ELSE << >>
    IN  \E cured \in BOOLEAN, hurt \in 1..hp[active[s]] :
          LET sick == active[s] \in ailing /\ ~cured /\ sapped > 0
              left == IF sick THEN Minus(sapped, hurt) ELSE sapped
              fell == sapped > 0 /\ left = 0
          IN  /\ hp' = [hp EXCEPT ![active[s]] = left, ![active[o]] = fed]
              /\ SettleFaints(IF fell THEN drained \o << <<s, left>> >> ELSE drained, lock)
              /\ ailing' = IF cured \/ left = 0 THEN ailing \ {active[s]} ELSE ailing
              /\ queue' = IF fell /\ FaintingDecides(s) THEN << >> ELSE Tail(queue)

Residual ==
    /\ phase = "residual"
    /\ IF queue = << >>
       THEN phase' = "settling" /\ UNCHANGED <<hp, ailing, scratch, told, queue>>
       ELSE /\ UNCHANGED <<phase, runner>>
            /\ IF Standing(Head(queue)) THEN ResidualOf(Head(queue))
               ELSE queue' = Tail(queue) /\ UNCHANGED <<hp, ailing, seeded, inLove, lock, courted, told>>
    /\ UNCHANGED <<kind, party, pending, held, outcome, fleeing, passes>>

\* The second `handle_fainted_mons` of the turn, and the call returns.
EndTurn ==
    /\ phase = "settling"
    /\ HandleFaintedMons
    /\ phase' = "idle"
    /\ UNCHANGED <<kind, hp, ailing, held, queue, fleeing, passes>>

\* A plausible slip: the last answer forgets the pass the prompt held back.
ResolveMoveLearnOnly ==
    /\ phase = "idle" /\ pending > 0
    /\ pending' = pending - 1
    /\ IF pending > 1
       THEN UNCHANGED <<party, scratch, outcome, money, held, phase>>
       ELSE /\ IF outcome = "none" /\ ~Standing("enemy") THEN SettleFaintedEnemy(<< >>)
               ELSE UNCHANGED <<party, scratch, outcome, money>>
            /\ held' = FALSE
            /\ phase' = "idle"
    /\ UNCHANGED <<kind, hp, ailing, reported, paid, queue, fleeing, passes>>

\* A plausible slip: the last answer handles the whole faint again.
ResolveMoveLearnAgain ==
    /\ phase = "idle" /\ pending > 0
    /\ IF pending > 1
       THEN pending' = pending - 1 /\ UNCHANGED <<paid, party, scratch, outcome, money, held, phase>>
       ELSE /\ IF outcome = "none" /\ ~Standing("enemy") THEN RewardThenReplace
               ELSE pending' = 0 /\ UNCHANGED <<party, scratch, outcome, told>>
            /\ held' = FALSE
            /\ phase' = IF held THEN "pass" ELSE "idle"
    /\ UNCHANGED <<kind, hp, ailing, reported, queue, fleeing, passes>>

\* `resolve_move_learn`: the last answer releases the replacement or the
\* victory the prompt deferred, then the pass it held back.
ResolveMoveLearn ==
    /\ phase = "idle" /\ pending > 0
    /\ pending' = pending - 1
    /\ IF pending > 1
       THEN UNCHANGED <<party, scratch, outcome, money, held, phase>>
       ELSE /\ IF outcome = "none" /\ ~Standing("enemy") THEN SettleFaintedEnemy(<< >>)
               ELSE UNCHANGED <<party, scratch, outcome, money>>
            /\ held' = FALSE
            /\ phase' = IF held THEN "pass" ELSE "idle"
    /\ UNCHANGED <<kind, hp, ailing, reported, paid, queue, fleeing, passes>>

Next == \/ TakeTurn \/ RunAway \/ Act \/ SkipAction
        \/ CloseActions \/ StartPass \/ Residual \/ EndTurn
        \/ ResolveMoveLearn

Spec == Init /\ [][Next]_vars

---------------------------------------------------------------------------
TypeOK ==
    /\ kind \in Kinds
    /\ \A s \in Side : active[s] \in Mons /\ bench[s] \in Seq(Mons) /\ slot[s] \in 0..Len(bench[s])
    /\ hp \in [Mons -> 0..MaxHp]
    /\ ailing \subseteq Mons
    /\ seeded \subseteq Side /\ inLove \subseteq Side
    /\ lock \in [Side -> 0..(SeriesAttempts - 1)]
    /\ pending \in 0..MaxPrompts /\ held \in BOOLEAN
    /\ outcome \in Outcomes \cup {"none"}
    /\ phase \in {"idle", "acts", "closing", "pass", "residual", "settling"}
    /\ queue \in SeqOf(Side, 2) /\ fleeing \in BOOLEAN
    /\ reported \in [Mons -> Nat] /\ paid \in [ToSet(Foes) -> Nat]
    /\ money \in Nat /\ passes \in Nat
    /\ courted \in [Side -> Mons] /\ runner \in [Side -> Mons]

\* Whenever the engine asks for the next action, both battlers stand: no path
\* through a faint, a double faint, a prompt answered late or a pass felling
\* someone leaves a fainted battler on the field (`take_turn` does not check).
AskedBattlersStand == Accepting => \A s \in Side : Standing(s)

\* Whoever is out and however often both sides replaced, the members read in
\* party order are the caller's: `player_members` is how the field files each
\* record back into its own slot, and a trainer's slots are original ones.
PartyOrderKept == \A s \in Side : Members(s) = Roster(s)

\* Every faint is reported exactly once, however many `tryfaintmon` calls the
\* script of the move, its contact abilities and the pass make about it.
FaintToldOnce == \A m \in Mons : reported[m] = IF hp[m] = 0 THEN 1 ELSE 0

\* A defeated opponent pays experience at most once, also when its faint is
\* handled twice a turn or a prompt comes between the award and the rest.
RewardOncePerFoe == \A e \in DOMAIN paid : paid[e] <= (IF hp[e] = 0 THEN 1 ELSE 0)

\* An outcome is what the two parties say: a win with every opponent down,
\* someone of the party left and the prize paid once, a loss with the whole
\* party down, also when both fall together; no prompt or held pass survives.
OutcomeJustified ==
    /\ outcome = "PlayerWon" => /\ \A e \in ToSet(Roster("enemy")) : hp[e] = 0
                               /\ \E m \in ToSet(Team) : hp[m] > 0
    /\ outcome = "PlayerLost" => \A m \in ToSet(Team) : hp[m] = 0
    /\ money = (IF outcome = "PlayerWon" /\ kind = "Trainer" THEN 1 ELSE 0)
    /\ outcome # "none" => pending = 0 /\ ~held

\* Battle scratch belongs to who stands on the field: a battler is in love only
\* with the one it fell for, and a lock is carried only by who started it and
\* survived its own attempt.
ScratchIsCurrent ==
    /\ \A s \in inLove : courted[s] = active[Other(s)] /\ Standing(s) /\ Standing(Other(s))
    /\ \A s \in Side : lock[s] > 0 => runner[s] = active[s] /\ Standing(s)

\* Between turns exactly one end-of-turn pass has run, whether at once or
\* when the last prompt was answered.
OnePassPerTurn == passes <= 1 /\ (Accepting => passes = 1)

\* Who stands on the field is who the parties say: filed in party order, with
\* only its own love and locks.
BattleInv == TypeOK /\ PartyOrderKept /\ ScratchIsCurrent

\* A turn ends complete, however prompts cut it up: both battlers stand and the
\* end-of-turn pass has run once before the engine asks for the next action.
TurnsComplete == AskedBattlersStand /\ OnePassPerTurn

\* What the events tell the caller adds up: a faint and a reward once each.
ToldOnce == FaintToldOnce /\ RewardOncePerFoe

\* A decided battle hurts, pays and replaces nobody: the rest of the turn
\* behind an escape, a flight or the last faint leaves everything as it is.
DecidedIsOver == [][outcome # "none" =>
    UNCHANGED <<outcome, party, hp, ailing, scratch, told, pending, passes>>]_vars
=============================================================================
