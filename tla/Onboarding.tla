------------------------------ MODULE Onboarding ------------------------------
(***************************************************************************)
(* The first-run setup of tbo-tui (onboarding.rs): questions on a          *)
(* terminal or a pipe, each with a default, some asked until they are      *)
(* answered; then the files are saved, the operator signs in, as often as  *)
(* he likes, and the program goes on to its screens.                       *)
(*                                                                         *)
(* A line that is typed is only told apart by what the prompts tell apart. *)
(* What becomes of the two files is in ConfigStore, the sign-in itself in  *)
(* SignIn and DevicePoll.                                                  *)
(***************************************************************************)
EXTENDS Naturals, Sequences

CONSTANT MaxBooths      \* bound: booths that are configured

ASSUME OnboardingAssumption == MaxBooths \in Nat \ {0}

VARIABLES
    stage,          \* the prompt that waits for a line, or the step after
    existing,       \* the configuration that is in the files
    answers,        \* OnboardingAnswers, as far as they are given
    draft,          \* the booth that is being added
    session,        \* whether somebody is signed in
    ended,          \* the input has ended for good: a pipe, a terminal gone
    typed           \* history: a line said something, and not just Enter

setupVars == <<stage, existing, answers, draft, session, ended, typed>>

Prompts == {"url", "default tenant?", "issuer", "client id", "scopes", "theme", "fonts?",
            "keep?", "add?", "id", "name", "debug url", "token", "pin", "again?", "retry?"}
Stages == Prompts \cup {"start", "save", "session", "sign in", "validate", "screens", "failed"}

\* A value is the built-in one, the one configured before, or typed now.
Values == {"builtin", "before", "typed"}
BoothValues == {"before", "example", "typed"}
NotAsked == "not asked"
Configurations ==
    [url: Values \cup {NotAsked}, auth: Values \cup {NotAsked},
     theme: {"listed", "unlisted", "other", NotAsked}, fonts: {"on", "off", NotAsked},
     booths: UNION {[1..n -> BoothValues] : n \in 0..MaxBooths}]
Blank ==
    [url |-> NotAsked, auth |-> NotAsked, theme |-> NotAsked, fonts |-> NotAsked,
     booths |-> <<>>]

\* What may be there: the defaults, or what was configured or edited by hand.
Configured ==
    {c \in Configurations :
        /\ c.url \in {"builtin", "before"} /\ c.auth \in {"builtin", "before"}
        /\ c.theme \in {"listed", "unlisted"} /\ c.fonts \in {"on", "off"}
        /\ c.booths \in {<<>>, <<"before">>}}

Unset == [url |-> "builtin", auth |-> "builtin", theme |-> "listed", fonts |-> "on",
             booths |-> <<>>]

SetupTypeOK ==
    /\ stage \in Stages
    /\ existing \in Configurations /\ answers \in Configurations
    /\ draft \in BoothValues
    /\ {session, ended, typed} \subseteq BOOLEAN

SetupInit ==
    /\ stage = "start"
    /\ existing \in Configured
    /\ answers = Blank
    /\ draft = "example"
    /\ session = FALSE
    /\ ended = FALSE /\ typed = FALSE
-----------------------------------------------------------------------------
TypedLines == {"end", "empty", "yes", "no", "word", "unknown"}

(* read_line. On a terminal the end of the input passes, on a pipe it      *)
(* stays.                                                                  *)
ReadsLine(line) ==
    /\ line \in TypedLines /\ (ended => line = "end")
    /\ ended' \in IF line = "end" THEN {ended, TRUE} ELSE {FALSE}
    /\ typed' = (typed \/ line \notin {"end", "empty"})

Says(line) == line \notin {"end", "empty"}

\* prompt_line and prompt_optional.
ValueOf(line, default) == IF Says(line) THEN "typed" ELSE default

RepliedUnlessEnd(line) == line \in {"empty", "yes", "no"}   \* a slip: the end asks again

(* prompt_yes_no asks until it is one of them; Enter and the end of the    *)
(* input mean the default.                                                 *)
Replied(line) == line \in {"end", "empty", "yes", "no"}
IsYes(line, default) == line = "yes" \/ (~Says(line) /\ default)

AfterFonts == IF existing.booths = <<>> THEN "add?" ELSE "keep?"

(* A prompt that puts a question, and the two ways on. *)
Question(at, line, default, yes, no) ==
    /\ stage = at /\ ReadsLine(line)
    /\ stage' = IF ~Replied(line) THEN at ELSE IF IsYes(line, default) THEN yes ELSE no
-----------------------------------------------------------------------------
Takes(line, new) == answers' = IF Replied(line) THEN new ELSE answers

(* main.rs: the setup runs when it is asked for, or when there is no file  *)
(* and there is a terminal; a subcommand never runs it.                    *)
Starts(setup, terminal) ==
    /\ stage = "start"
    /\ stage' = IF setup \/ (existing = Unset /\ terminal) THEN "url" ELSE "screens"
    /\ UNCHANGED <<existing, answers, draft, session, ended, typed>>

(* collect_answers, prompt by prompt. *)
AskUrl(line) ==
    /\ stage = "url" /\ ReadsLine(line)
    /\ answers' = [answers EXCEPT !.url = ValueOf(line, existing.url)]
    /\ stage' = "default tenant?"
    /\ UNCHANGED <<existing, draft, session>>

AlwaysBuiltIn == TRUE       \* a slip: Enter means the built-in tenant
TenantDefault == existing.auth = "builtin"
AskTenant(line) ==
    /\ Question("default tenant?", line, TenantDefault, "theme", "issuer")
    /\ Takes(line, [answers EXCEPT !.auth =
                       IF stage' = "theme" THEN "builtin" ELSE existing.auth])
    /\ UNCHANGED <<existing, draft, session>>

AskTenantDetail(line, at, next) ==
    /\ stage = at /\ ReadsLine(line)
    /\ answers' = [answers EXCEPT !.auth = ValueOf(line, @)]
    /\ stage' = next
    /\ UNCHANGED <<existing, draft, session>>

(* prompt_theme: a name or a number of the list, or the theme there was,   *)
(* which must be on the list too.                                          *)
AskTheme(line) ==
    /\ stage = "theme" /\ ReadsLine(line)
    /\ IF line = "unknown" \/ (~Says(line) /\ existing.theme = "unlisted")
       THEN UNCHANGED <<stage, answers>>
       ELSE /\ stage' = "fonts?"
            /\ answers' = [answers EXCEPT !.theme = IF Says(line) THEN "other"
                                                    ELSE existing.theme]
    /\ UNCHANGED <<existing, draft, session>>

AskFonts(line) ==
    /\ Question("fonts?", line, existing.fonts = "on", AfterFonts, AfterFonts)
    /\ Takes(line, [answers EXCEPT !.fonts =
                       IF IsYes(line, existing.fonts = "on") THEN "on" ELSE "off"])
    /\ UNCHANGED <<existing, draft, session>>

(* collect_booths. *)
AskKeep(line) ==
    /\ Question("keep?", line, TRUE, "add?", "add?")
    /\ Takes(line, [answers EXCEPT !.booths =
                       IF IsYes(line, TRUE) THEN existing.booths ELSE <<>>])
    /\ UNCHANGED <<existing, draft, session>>

AskAdd(line) ==
    /\ line = "yes" => Len(answers.booths) < MaxBooths
    /\ Question("add?", line, FALSE, "id", "save")
    /\ UNCHANGED <<existing, answers, draft, session>>

(* prompt_required: asked until there is one; at the end of the input the  *)
(* booth is given up, and with it the loop.                                *)
AskId(line) ==
    /\ stage = "id" /\ ReadsLine(line)
    /\ stage' = CASE line = "end" -> "save" [] line = "empty" -> "id" [] OTHER -> "name"
    /\ UNCHANGED <<existing, answers, draft, session>>

AskName(line) ==
    /\ stage = "name" /\ ReadsLine(line)
    /\ stage' = "debug url"
    /\ UNCHANGED <<existing, answers, draft, session>>

AskDebugUrl(line) ==
    /\ stage = "debug url" /\ ReadsLine(line)
    /\ draft' = ValueOf(line, "example")
    /\ stage' = "token"
    /\ UNCHANGED <<existing, answers, session>>

AskToken(line) ==
    /\ stage = "token" /\ ReadsLine(line)
    /\ stage' = "pin"
    /\ UNCHANGED <<existing, answers, draft, session>>

AskPin(line) ==
    /\ stage = "pin" /\ ReadsLine(line)
    /\ answers' = [answers EXCEPT !.booths = Append(@, draft)]
    /\ draft' = "example"
    /\ stage' = "add?"
    /\ UNCHANGED <<existing, session>>
-----------------------------------------------------------------------------
(* What follows the questions. *)
NoLine == UNCHANGED <<existing, answers, draft, ended, typed>>

SavesAnswers ==
    /\ stage = "save"
    /\ existing' = answers /\ answers' = Blank
    /\ stage' = "session"
    /\ UNCHANGED <<draft, session, ended, typed>>

(* build_session and should_sign_in: the keychain holds a session, or it   *)
(* holds none or is out of reach.                                          *)
OpensSession ==
    /\ stage = "session"
    /\ session' \in BOOLEAN
    /\ stage' = IF session' THEN "again?" ELSE "sign in"
    /\ NoLine

AskAgain(line) ==
    /\ Question("again?", line, FALSE, "sign in", "validate")
    /\ UNCHANGED <<existing, answers, draft, session>>

(* sign_in_once. *)
SignsIn ==
    /\ stage = "sign in"
    /\ session' = TRUE /\ stage' = "validate"
    /\ NoLine

SignInFails ==
    /\ stage = "sign in"
    /\ stage' = "retry?"
    /\ UNCHANGED session /\ NoLine

AskRetry(line) ==
    /\ Question("retry?", line, TRUE, "sign in", "validate")
    /\ UNCHANGED <<existing, answers, draft, session>>

(* validate: whatever it finds is only said. *)
Validates ==
    /\ stage = "validate"
    /\ stage' = "screens"
    /\ UNCHANGED session /\ NoLine

(* The files cannot be written, the terminal cannot, the session cannot be *)
(* opened, or the operator breaks off: the program ends.                   *)
GivesUp ==
    /\ stage \notin {"start", "screens", "failed"}
    /\ stage' = "failed"
    /\ UNCHANGED session /\ NoLine

(* The program is started another time, with what it saved. *)
Aged(v) == IF v \in {"typed", "example"} THEN "before" ELSE IF v = "other" THEN "listed" ELSE v
StartsAgain ==
    /\ stage \in {"screens", "failed"}
    /\ stage' = "start"
    /\ existing' = [url |-> Aged(existing.url), auth |-> Aged(existing.auth),
                     theme |-> Aged(existing.theme), fonts |-> existing.fonts,
                     booths |-> [i \in DOMAIN existing.booths |-> Aged(existing.booths[i])]]
    /\ answers' = Blank /\ draft' = "example"
    /\ session' = FALSE /\ ended' = FALSE /\ typed' = FALSE

AsksLine(line) ==
    \/ AskUrl(line) \/ AskTenant(line)
    \/ AskTenantDetail(line, "issuer", "client id")
    \/ AskTenantDetail(line, "client id", "scopes")
    \/ AskTenantDetail(line, "scopes", "theme")
    \/ AskTheme(line) \/ AskFonts(line) \/ AskKeep(line) \/ AskAdd(line)
    \/ AskId(line) \/ AskName(line) \/ AskDebugUrl(line) \/ AskToken(line) \/ AskPin(line)
    \/ AskAgain(line) \/ AskRetry(line)

\* Steps that nobody has to type anything for.
GoesOnAlone ==
    \/ ended /\ AsksLine("end")
    \/ SavesAnswers \/ OpensSession \/ SignsIn \/ SignInFails \/ Validates

SetupNext ==
    \/ \E setup, terminal \in BOOLEAN : Starts(setup, terminal)
    \/ \E line \in TypedLines : AsksLine(line)
    \/ SavesAnswers \/ OpensSession \/ SignsIn \/ SignInFails \/ Validates
    \/ GivesUp \/ StartsAgain

SetupSpec == SetupInit /\ [][SetupNext]_setupVars
-----------------------------------------------------------------------------
(* A setup that is gone through with Enter, or with an input that ends,    *)
(* changes nothing: each prompt's default is what was configured, down to  *)
(* the tenant that is only asked for on the way and the booths that are    *)
(* kept as they are.                                                       *)
EnterKeepsAll ==
    stage = "save" /\ ~typed => answers = existing

(* Once the input is at its end no prompt waits for an answer that cannot  *)
(* come: the setup goes on to the screens or fails. There are two that do  *)
(* not end, the theme when the one configured is not on the list, and the  *)
(* sign-in, which is tried again for as long as it fails.                  *)
EndOfInputEndsSetup ==
    ended ~> \/ stage \in {"screens", "failed", "sign in"}
             \/ stage = "theme" /\ existing.theme = "unlisted"
=============================================================================
