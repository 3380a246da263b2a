------------------------------ MODULE Catalogue ------------------------------
(***************************************************************************)
(* The catalogue of the WeChat client (wechat/js/services/catalog.js) and  *)
(* what hangs on it: the home screen, the language of the player and the   *)
(* museum items that a completed level unlocks (wechat/js/app.js).         *)
(*                                                                         *)
(* The server writes the catalogue in the language it has for the player   *)
(* (publicCatalog); the device keeps one copy per language.  All who want  *)
(* the catalogue share one load.  A change of the language is a request of *)
(* its own, which may be lost, late or overtaken.                          *)
(***************************************************************************)
EXTENDS FiniteSets, Naturals

CONSTANTS
    Users,
    Locales,
    Items,      \* of the museum
    MaxWrites,  \* bounds the changes of the language that are on their way
    MaxRewards, \* bounds the rewards that are on their way when a level is completed
    Nil

ASSUME CatalogueAssumption ==
    /\ MaxWrites \in Nat \ {0}
    /\ MaxRewards \in Nat \ {0}
    /\ Nil \notin Users \cup Locales

VARIABLES
    language,    \* of each player, in the table users
    unlocked,    \* the museum items each player has
    user,        \* of the session
    locale,      \* preferences.data.locale
    cache,       \* the catalogue kept for each language
    scene,
    catalogData,
    itemReward,  \* of the level on the screen
    arriving,    \* the new items whose picture is being loaded
    loading,     \* the load all share
    rewards,     \* the items that each refreshNewMuseumItems waiting for it compares with
    boot,        \* the start of the application
    writes,      \* the changes of the language on their way
    finishing,   \* a level is completed and its answer on its way
    doubt        \* a change of the language was lost, overtaken or left behind

server == <<language, unlocked>>
gift == <<itemReward, arriving>>
shared == <<loading, rewards>>
catalogueVars == <<language, unlocked, user, locale, cache, scene, catalogData, itemReward, arriving,
          loading, rewards, boot, writes, finishing, doubt>>

\* No change of the language is open.
Settled == writes = {} /\ ~doubt
Inside == {"home", "levels", "game", "settings"}

\* A catalogue is [lang, items, sure]; sure: answered while the language of the player was
\* settled, in the language that the device still has when it comes.

\* The language of the device changes over a catalogue that is on its way.
Unsure(load) == IF load = Nil \/ load.answer = Nil THEN load
                ELSE [load EXCEPT !.answer.sure = FALSE]

-----------------------------------------------------------------------------
(* CatalogRepository                                                       *)

\* Mutant: one place for all languages.
OneKey == CHOOSE l \in Locales : TRUE

\* Where the device keeps the catalogue; the language is that of the moment.
Key == locale

Cached == cache[Key]

\* refresh: the load that is under way, or one that begins.
Joined == IF loading # Nil THEN loading ELSE [by |-> user, answer |-> Nil]

\* The server reads language and items at one moment; a retry has the token of its own.
ServerAnswers ==
    /\ loading # Nil
    /\ loading.by # Nil
    /\ loading.answer = Nil
    /\ \E by \in {loading.by, user} \ {Nil} :
         loading' = [by |-> by,
                     answer |-> [lang |-> language[by], items |-> unlocked[by],
                                 sure |-> /\ by = user
                                          /\ Settled
                                          /\ boot = Nil
                                          /\ scene \in Inside]]
    /\ UNCHANGED <<server, user, locale, cache, scene, catalogData, gift, rewards, boot,
                   writes, finishing, doubt>>

\* The catalogue has come, or the kept one stands in for it.
CatalogArrives(data, late) ==
    /\ catalogData' = data
    /\ \/ /\ \A previous \in rewards : data.items \subseteq previous
          /\ UNCHANGED arriving
       \/ \E previous \in rewards : \E i \in data.items \ previous :
             arriving' = arriving \cup {[item |-> i, late |-> late]}

\* The load ends for all that wait for it; late: it was asked for another account.
LoadEnds ==
    /\ loading # Nil
    /\ \/ /\ loading.answer # Nil
          /\ cache' = [cache EXCEPT ![Key] = loading.answer]
          /\ CatalogArrives(loading.answer, loading.by # user)
       \/ /\ Cached # Nil
          /\ CatalogArrives(Cached, TRUE)
          /\ UNCHANGED cache
       \/ /\ Cached = Nil
          /\ UNCHANGED <<cache, catalogData, arriving>>
    /\ loading' = Nil
    /\ rewards' = {}
    /\ UNCHANGED <<server, user, locale, scene, itemReward, boot, writes, finishing, doubt>>

\* The picture of the new item is there: the item goes to the level of the moment.
RewardShown(r) ==
    /\ itemReward' = r
    /\ arriving' = arriving \ {r}
    /\ UNCHANGED <<server, user, locale, cache, scene, catalogData, shared, boot, writes,
                   finishing, doubt>>

-----------------------------------------------------------------------------
(* The screens                                                             *)

\* showHome
Home ==
    /\ scene' = "home"
    /\ catalogData' = Nil
    /\ loading' = Joined

ShowHome ==
    /\ scene \in {"home", "levels", "settings"}
    /\ Home
    /\ UNCHANGED <<server, user, locale, cache, gift, rewards, boot, writes,
                   finishing, doubt>>

GoesTo(from, to) ==
    /\ scene \in from
    /\ scene' = to
    /\ UNCHANGED <<server, user, locale, cache, catalogData, shared, boot, writes,
                   finishing, doubt>>

\* The series and the levels are those of the catalogue.
ShowLevelSelect ==
    /\ scene = "home" => catalogData # Nil
    /\ GoesTo({"home", "game"}, "levels")
    /\ UNCHANGED gift

\* Mutant: the reward of the last level stays.
LoadGameOver ==
    /\ scene # "game" => catalogData # Nil
    /\ GoesTo({"home", "levels", "game"}, "game")
    /\ UNCHANGED gift

LoadGame ==
    /\ scene # "game" => catalogData # Nil
    /\ GoesTo({"home", "levels", "game"}, "game")
    /\ itemReward' = Nil
    /\ UNCHANGED arriving

ShowSettings == GoesTo({"home", "levels"}, "settings") /\ UNCHANGED gift

-----------------------------------------------------------------------------
(* A completed level                                                       *)

\* The completed level reaches the server and unlocks an item, or none, or it waits in the
\* queue.
FinishLevel ==
    /\ scene = "game"
    /\ ~finishing
    /\ Cardinality(rewards) + Cardinality(arriving) < MaxRewards
    /\ finishing' = TRUE
    /\ \/ UNCHANGED unlocked
       \/ /\ user # Nil
          /\ \E i \in Items : unlocked' = [unlocked EXCEPT ![user] = @ \cup {i}]
    /\ UNCHANGED <<language, user, locale, cache, scene, catalogData, gift, shared,
                   boot, writes, doubt>>

\* refreshNewMuseumItems: clear, get(true)
RefreshNewMuseumItems ==
    /\ finishing
    /\ cache' = [cache EXCEPT ![Key] = Nil]
    /\ rewards' = rewards \cup
         {IF catalogData = Nil THEN {} ELSE catalogData.items}
    /\ loading' = Joined
    /\ finishing' = FALSE
    /\ UNCHANGED <<server, user, locale, scene, catalogData, gift, boot,
                   writes, doubt>>

\* The answer is lost, or the level waits in the queue.
CompleteQueued ==
    /\ finishing
    /\ finishing' = FALSE
    /\ UNCHANGED <<server, user, locale, cache, scene, catalogData, gift, shared, boot,
                   writes, doubt>>

-----------------------------------------------------------------------------
(* The language                                                            *)

\* The request is sent at once and nothing waits for its answer.
ToggleLanguage ==
    /\ scene = "settings"
    /\ Cardinality(writes) < MaxWrites
    /\ \E next \in Locales \ {locale} :
         /\ locale' = next
         /\ cache' = [cache EXCEPT ![next] = Nil]
         /\ writes' = IF user = Nil THEN writes
                      ELSE writes \cup {[by |-> user, lang |-> next]}
    /\ catalogData' = Nil
    /\ doubt' = (doubt \/ writes # {} \/ user = Nil)
    /\ loading' = Unsure(loading)
    /\ UNCHANGED <<server, user, scene, gift, rewards, boot, finishing>>

\* A repetition after a refresh has the token of its own; the answer is never looked at.
UpdateLocale(w) ==
    /\ writes' = writes \ {w}
    /\ \/ \E by \in {w.by, user} \ {Nil} :
             /\ language' = [language EXCEPT ![by] = w.lang]
             /\ doubt' = (doubt \/ by # w.by)
       \/ /\ doubt' = TRUE
          /\ UNCHANGED language
    /\ UNCHANGED <<unlocked, user, locale, cache, scene, catalogData, gift, shared,
                   boot, finishing>>

-----------------------------------------------------------------------------
(* The application                                                         *)

\* bootstrap; without a token it shows the login screen.
Bootstrap ==
    /\ scene = "loading"
    /\ boot = Nil
    /\ IF user = Nil
       THEN scene' = "login" /\ UNCHANGED boot
       ELSE boot' = [by |-> user, at |-> "config", lang |-> Nil, sure |-> FALSE]
            /\ UNCHANGED scene
    /\ UNCHANGED <<server, user, locale, cache, catalogData, gift, shared, writes,
                   finishing, doubt>>

ServerBoots ==
    /\ boot # Nil
    /\ boot.at = "config"
    /\ boot.lang = Nil
    /\ boot' = [boot EXCEPT !.lang = language[boot.by], !.sure = writes = {}]
    /\ UNCHANGED <<server, user, locale, cache, scene, catalogData, gift, shared,
                   writes, finishing, doubt>>

\* The language of the server becomes that of the device; then the queue is flushed.
Configured ==
    /\ boot # Nil
    /\ boot.lang # Nil
    /\ boot.at = "config"
    /\ locale' = boot.lang
    /\ doubt' = (doubt /\ ~boot.sure)
    /\ boot' = [boot EXCEPT !.at = "flush"]
    /\ loading' = Unsure(loading)
    /\ UNCHANGED <<server, user, cache, scene, catalogData, gift, rewards,
                   writes, finishing>>

Flushed ==
    /\ boot # Nil
    /\ boot.at = "flush"
    /\ boot' = Nil
    /\ Home
    /\ UNCHANGED <<server, user, locale, cache, gift, rewards, writes, finishing, doubt>>

\* The start fails; the player may try it again.
BootFails ==
    /\ boot # Nil
    /\ boot.at = "config"
    /\ boot' = Nil
    /\ scene' = "loading"
    /\ UNCHANGED <<server, user, locale, cache, catalogData, gift, shared, writes,
                   finishing, doubt>>

\* loginWechat: the server takes the language of the device.
LoginWechat(u) ==
    /\ scene = "login"
    /\ boot = Nil
    /\ user' = u
    /\ language' = [language EXCEPT ![u] = locale]
    /\ doubt' = (writes # {})
    /\ scene' = "loading"
    /\ UNCHANGED <<unlocked, locale, cache, catalogData, gift, shared, boot, writes,
                   finishing>>

\* The player signs out, or a request finds the session ended (onSessionExpired).
SessionEnds ==
    /\ user # Nil
    /\ user' = Nil
    /\ scene' = "login"
    /\ arriving' = {[r EXCEPT !.late = TRUE] : r \in arriving}
    /\ UNCHANGED <<server, locale, cache, catalogData, itemReward, shared, boot, writes,
                   finishing, doubt>>

\* The application is closed; what it has sent goes on.
Reopen ==
    /\ scene' = "loading"
    /\ catalogData' = Nil
    /\ itemReward' = Nil
    /\ arriving' = {}
    /\ loading' = Nil
    /\ rewards' = {}
    /\ boot' = Nil
    /\ finishing' = FALSE
    /\ doubt' = (doubt \/ writes # {})
    /\ UNCHANGED <<server, user, locale, cache, writes>>

CatalogueInit ==
    /\ language \in [Users -> Locales]
    /\ unlocked = [u \in Users |-> {}]
    /\ user = Nil
    /\ locale \in Locales
    /\ cache = [l \in Locales |-> Nil]
    /\ scene = "loading"
    /\ catalogData = Nil
    /\ itemReward = Nil
    /\ arriving = {}
    /\ loading = Nil
    /\ rewards = {}
    /\ boot = Nil
    /\ writes = {}
    /\ finishing = FALSE
    /\ doubt = FALSE

CatalogueNext ==
    \/ ServerAnswers \/ LoadEnds \/ \E r \in arriving : RewardShown(r)
    \/ ShowHome \/ ShowLevelSelect \/ LoadGame \/ ShowSettings
    \/ FinishLevel \/ RefreshNewMuseumItems \/ CompleteQueued
    \/ ToggleLanguage \/ \E w \in writes : UpdateLocale(w)
    \/ Bootstrap \/ ServerBoots \/ Configured \/ Flushed \/ BootFails
    \/ \E u \in Users : LoginWechat(u)
    \/ SessionEnds \/ Reopen

CatalogueSpec == CatalogueInit /\ [][CatalogueNext]_catalogueVars

-----------------------------------------------------------------------------
(* Properties                                                              *)

\* Inside the application, with no change of the language on its way and none lost,
\* overtaken or sent for another account since the last sign-in or start, the server writes
\* for the player in the language of the device (toggleLanguage, bootstrap, IssueExternal).
\* A catalogue that was answered in such times is kept under its own language, and where a
\* screen draws one it is in the language of the device, also after a failed load fell back
\* to what was kept (CatalogRepository.key, refresh).
LanguagesAgree ==
    /\ user # Nil /\ boot = Nil /\ Settled /\ scene # "loading"
         => language[user] = locale
    /\ \A l \in Locales : cache[l] # Nil /\ cache[l].sure => cache[l].lang = l
    /\ scene \in Inside /\ catalogData # Nil /\ catalogData.sure
         => catalogData.lang = locale

\* A reward that a level announces is an item the player has, though accounts change, loads
\* are shared and levels are left, unless it was on its way while the account changed or
\* stems from a kept catalogue (refreshNewMuseumItems).
RewardsAreEarned ==
    scene = "game" /\ itemReward # Nil /\ ~itemReward.late
      => itemReward.item \in unlocked[user]

\* What the plan for the languages asks for (docs/plan/game-odd-spot-i18n-plan.md:1083): no
\* catalogue of another language in the cache of a language.
OwnLanguageOnly == \A l \in Locales : cache[l] # Nil => cache[l].lang = l
=============================================================================
