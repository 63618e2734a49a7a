----------------------------- MODULE Challenger -----------------------------
(***************************************************************************)
(* The challenges of one host as browsers meet them: the decision of       *)
(* Challenger::on_http_request, the answer its response generator gives    *)
(* later in the same transaction, and the cookie that carries a solution   *)
(* from one request to the next.  A handler is one step here; what threads *)
(* do to the failure count within a handler is the subject of              *)
(* FailureCount.                                                           *)
(*                                                                         *)
(* A cookie is what GenerateCookie puts under its hash (the captcha text,  *)
(* the time, the ip) and what the page's script appended to it.  The hash  *)
(* is taken to be perfect.                                                 *)
(***************************************************************************)
EXTENDS Naturals, Sequences

CONSTANTS Browsers, IPs,
          Texts,               \* captcha texts, not empty
          GloballyWhiteListed, \* ips in the global white list
          Configurations,      \* possible challenge lists of the host
          CaptchaTime,         \* seconds to answer a captcha (120)
          MaxTime, MaxRequests, MaxReloads

Challenge == [type : {"captcha", "sha_inverse", "auth"}, fail_tolerance_threshold : Nat,
              challenge_validity_period : Nat, white_listed_ips : SUBSET IPs]

ASSUME ChallengerAssumption ==
    /\ Texts # {} /\ "" \notin Texts
    /\ GloballyWhiteListed \subseteq IPs
    /\ Configurations \subseteq Seq(Challenge) /\ Configurations # {}
    /\ {CaptchaTime, MaxTime, MaxRequests, MaxReloads} \subseteq Nat

VARIABLES
    clock,
    challenges, \* host_challenges_static[host] of the configuration in force
    count,      \* challenger_ip_db, 0 for an ip without a record
    bans,       \* ips that report_failure asked swabber to ban
    txn,        \* per browser: the transaction waiting for its response
    cookie,     \* per browser: the "deflect" cookie
    token,      \* per browser: the token in the page it shows
    shown,      \* per browser: what it shows
    accepted,   \* history: times at which a solution of the ip was accepted
    captchas,   \* history: ips that gave the text of a captcha
    budget      \* requests and reloads left

vars == <<clock, challenges, count, bans, txn, cookie, token, shown, accepted,
          captchas, budget>>

NoCookie == [ip |-> "none", by |-> "nobody"]
Cookie == {NoCookie} \cup
    [ip : IPs, text : Texts \cup {""}, till : Nat, by : {"server", "sha_inverse", "auth", "wrong_password"}]
URLs == {"page", "protected", "excepted", "captcha", "validate"}
NoTxn == [url |-> "none"]
Txn == {NoTxn} \cup
    [url : URLs, answer : Texts \cup {""}, ip : IPs, jar : Cookie, challenge : Challenge,
     banned_ip : BOOLEAN, delete : BOOLEAN]

Init == /\ clock = 0
        /\ challenges \in Configurations
        /\ count = [ip \in IPs |-> 0]
        /\ bans = {}
        /\ txn = [b \in Browsers |-> NoTxn]
        /\ cookie = [b \in Browsers |-> NoCookie]
        /\ token = [b \in Browsers |-> NoCookie]
        /\ shown = [b \in Browsers |-> [what |-> "nothing", to |-> "nobody", at |-> 0]]
        /\ accepted = [ip \in IPs |-> {}]
        /\ captchas = {}
        /\ budget = [requests |-> MaxRequests, reloads |-> MaxReloads]

-----------------------------------------------------------------------------
\* GenerateCookie, and ValidateCookie returning 1.
GenerateCookie(text, till, ip) == [ip |-> ip, text |-> text, till |-> till, by |-> "server"]

Expired(jar) == jar.till < clock
SameAddressUnchecked(jar, ip) == jar # NoCookie
SameAddress(jar, ip) == jar # NoCookie /\ jar.ip = ip
SameTextUnchecked(jar, text) == TRUE
SameText(jar, text) == jar.text = text
ValidateCookie(text, ip, jar) ==
    SameAddress(jar, ip) /\ SameText(jar, text) /\ ~Expired(jar)

\* check_cookie: the part that the challenge's script appended, then the rest.
Prevailed(ch, jar) == ch.type = "captcha" \/ jar.by = ch.type
check_cookie(text, ip, jar, ch) == ValidateCookie(text, ip, jar) /\ Prevailed(ch, jar)

\* needs_authentication: a magic word occurs, and no exception before the query.
needs_authentication(url) == url \in {"protected", "excepted"} /\ url # "excepted"

\* What one challenge makes of a request.
Outcome(ch, ip, url, jar) ==
    LET ok == check_cookie("", ip, jar, ch)
    IN  CASE ip \in ch.white_listed_ips -> "serve_immediately"
          [] ip \notin ch.white_listed_ips /\ ch.type = "auth" ->
                 IF ok THEN "serve_fresh"
                 ELSE IF needs_authentication(url) THEN "fail" ELSE "next"
          [] ip \notin ch.white_listed_ips /\ ch.type # "auth" ->
                 IF ip \in GloballyWhiteListed THEN "next"
                 ELSE IF ch.type = "captcha" /\ url \in {"captcha", "validate"} THEN "respond"
                 ELSE IF ~ok THEN "fail"
                 ELSE IF ch.type = "captcha" THEN "solved" ELSE "next"

\* report_failure, for a challenge whose threshold is not 0: the count that is
\* left, and whether the ip is to be banned.
BannedNever(n, ch) == FALSE
Banned(n, ch) == ch.fail_tolerance_threshold > 0 /\ n + 1 >= ch.fail_tolerance_threshold
CountAfterFailure(n, ch) ==
    IF ch.fail_tolerance_threshold = 0 THEN n ELSE IF Banned(n, ch) THEN 0 ELSE n + 1

\* The cookie is cleared when a script challenge failed.
DeletesNothing(ch) == FALSE
Deletes(ch) == ch.type \in {"sha_inverse", "auth"}

\* The loop over the challenges stops at the first one that does not pass the
\* request on; report_success is called for each captcha solved on the way and
\* after the last challenge.
Passes(outcome) == outcome \in {"next", "solved"}

Decide(b, ip, url, answer) ==
    LET outcome == [i \in DOMAIN challenges |-> Outcome(challenges[i], ip, url, cookie[b])]
        CountAt(k) == IF \E i \in 1..(k - 1) : outcome[i] = "solved" THEN 1 ELSE count[ip]
        Show(what, m) == /\ shown' = [shown EXCEPT ![b] =
                                         [what |-> what, to |-> ip, at |-> clock]]
                         /\ count' = [count EXCEPT ![ip] = m]
                         /\ UNCHANGED <<txn, bans>>
        RespondBy(ch, m, banned, failed) ==
            /\ txn' = [txn EXCEPT ![b] =
                   [url |-> url, answer |-> answer, ip |-> ip, jar |-> cookie[b],
                    challenge |-> ch, banned_ip |-> banned, delete |-> failed /\ Deletes(ch)]]
            /\ bans' = IF banned THEN bans \cup {ip} ELSE bans
            /\ count' = [count EXCEPT ![ip] = m]
            /\ UNCHANGED shown
        StopAt(k, n, ch) ==
            \/ outcome[k] = "serve_fresh" /\ Show("fresh", 1)
            \/ outcome[k] = "serve_immediately" /\ Show("white_listed", n)
            \/ outcome[k] = "respond" /\ RespondBy(ch, n, FALSE, FALSE)
            \/ outcome[k] = "fail" /\ RespondBy(ch, CountAfterFailure(n, ch), Banned(n, ch), TRUE)
    IN  /\ txn[b] = NoTxn
        /\ \/ (\A i \in DOMAIN challenges : Passes(outcome[i])) /\ Show("content", 1)
           \/ \E k \in DOMAIN challenges :
                  /\ \A i \in 1..(k - 1) : Passes(outcome[i])
                  /\ StopAt(k, CountAt(k), challenges[k])
        /\ UNCHANGED <<clock, challenges, cookie, token, accepted, captchas>>

\* A request of any kind, out of the budget.
Request(b, ip, url, answer) ==
    /\ budget.requests > 0
    /\ budget' = [budget EXCEPT !.requests = @ - 1]
    /\ Decide(b, ip, url, answer)

-----------------------------------------------------------------------------
\* generate_response and generate_html, and handle_response's Set-Cookie.  A
\* cookie set by generate_html comes after the deletion in the same header, so
\* the deletion wins.
Answer(b, what, newcookie, newtoken, m) ==
    /\ shown' = [shown EXCEPT ![b] = [what |-> what, to |-> txn[b].ip, at |-> clock]]
    /\ cookie' = [cookie EXCEPT ![b] = IF txn[b].delete THEN NoCookie ELSE newcookie]
    /\ token' = [token EXCEPT ![b] = newtoken]
    /\ count' = [count EXCEPT ![txn[b].ip] = m]
    /\ txn' = [txn EXCEPT ![b] = NoTxn]
    /\ UNCHANGED <<clock, challenges, budget>>

Till(ch) == clock + ch.challenge_validity_period

TooManyFailures(b) ==
    /\ txn[b] # NoTxn /\ txn[b].banned_ip
    /\ Answer(b, "too_many_failures", cookie[b], NoCookie, count[txn[b].ip])
    /\ UNCHANGED <<bans, accepted, captchas>>

Image(b) ==
    /\ txn[b] # NoTxn /\ ~txn[b].banned_ip /\ txn[b].url = "captcha"
    /\ \E text \in Texts :
           Answer(b, "image", GenerateCookie(text, clock + CaptchaTime, txn[b].ip),
                  NoCookie, count[txn[b].ip])
    /\ UNCHANGED <<bans, accepted, captchas>>

Validate(b) ==
    LET ip == txn[b].ip
        ch == txn[b].challenge
    IN  /\ txn[b] # NoTxn /\ ~txn[b].banned_ip /\ txn[b].url = "validate"
        /\ \/ /\ check_cookie(txn[b].answer, ip, txn[b].jar, ch)
              /\ Answer(b, "OK", GenerateCookie("", Till(ch), ip), NoCookie, count[ip])
              /\ accepted' = [accepted EXCEPT ![ip] = @ \cup {clock}]
              /\ captchas' = IF txn[b].answer # "" THEN captchas \cup {ip} ELSE captchas
              /\ UNCHANGED bans
           \/ /\ ~check_cookie(txn[b].answer, ip, txn[b].jar, ch)
              /\ Answer(b, "X", cookie[b], NoCookie, CountAfterFailure(count[ip], ch))
              /\ bans' = IF Banned(count[ip], ch) THEN bans \cup {ip} ELSE bans
              /\ UNCHANGED <<accepted, captchas>>

\* The page of the challenge; only the templates of the script challenges
\* have a place for the token.
Page(b) ==
    LET ch == txn[b].challenge
    IN  /\ txn[b] # NoTxn /\ ~txn[b].banned_ip /\ txn[b].url \notin {"captcha", "validate"}
        /\ Answer(b, ch.type, cookie[b],
                  IF ch.type = "captcha" THEN NoCookie
                  ELSE GenerateCookie("", Till(ch), txn[b].ip),
                  count[txn[b].ip])
        /\ UNCHANGED <<bans, accepted, captchas>>

Respond(b) == TooManyFailures(b) \/ Image(b) \/ Validate(b) \/ Page(b)

-----------------------------------------------------------------------------
\* The script of solver.html or auth.html stores its
\* solution, for auth from the password that was typed in, unless an
\* HttpOnly cookie of the same name is there, which a script cannot replace.
CanStore(b) == cookie[b].by # "server"

RunScript(b, password) ==
    /\ token[b] # NoCookie /\ shown[b].what \in {"sha_inverse", "auth"} /\ txn[b] = NoTxn
    /\ CanStore(b)
    /\ LET right == shown[b].what = "sha_inverse" \/ password = "right"
       IN  /\ cookie' = [cookie EXCEPT ![b] = [token[b] EXCEPT !.by =
                            IF right THEN shown[b].what ELSE "wrong_password"]]
           /\ accepted' = [accepted EXCEPT ![token[b].ip] =
                              IF right THEN @ \cup {clock} ELSE @]
    /\ token' = [token EXCEPT ![b] = NoCookie]
    /\ shown' = [shown EXCEPT ![b].what = "solved"]
    /\ UNCHANGED <<clock, challenges, count, bans, txn, captchas, budget>>

\* A new configuration: new challenges and an empty database, the same key.
Reload ==
    /\ budget.reloads > 0
    /\ budget' = [budget EXCEPT !.reloads = @ - 1]
    /\ challenges' \in Configurations
    /\ count' = [ip \in IPs |-> 0]
    /\ UNCHANGED <<clock, bans, txn, cookie, token, shown, accepted, captchas>>

Tick == /\ clock < MaxTime
        /\ clock' = clock + 1
        /\ UNCHANGED <<challenges, count, bans, txn, cookie, token, shown, accepted,
                       captchas, budget>>

\* Browsers request anything from any address.
BrowserStep ==
    \E b \in Browsers :
        \/ \E ip \in IPs, url \in URLs \ {"validate"} : Request(b, ip, url, "")
        \/ \E ip \in IPs, answer \in Texts \cup {""} : Request(b, ip, "validate", answer)
        \/ Respond(b)
        \/ \E password \in {"right", "wrong"} : RunScript(b, password)

Next == BrowserStep \/ Reload \/ Tick

Spec == Init /\ [][Next]_vars

-----------------------------------------------------------------------------
\* A patient visitor: one address, does what the page on the screen asks for,
\* and reloads when an answer was refused or when the page's script could not
\* store its solution.
Seen(b) == IF cookie[b] = NoCookie THEN Texts ELSE {cookie[b].text}

Visit(b, ip, url) ==
    /\ \/ /\ \/ shown[b].what \in {"nothing", "OK", "X", "solved", "content", "fresh",
                                 "too_many_failures"}
             \/ shown[b].what \in {"sha_inverse", "auth"} /\ ~CanStore(b)
          /\ Decide(b, ip, url, "")
       \/ shown[b].what = "captcha" /\ Decide(b, ip, "captcha", "")
       \/ /\ shown[b].what = "image"
          /\ \E text \in Seen(b) : Decide(b, ip, "validate", text)
    /\ UNCHANGED budget

VisitorStep(b, ip) == \/ \E url \in {"page", "protected"} : Visit(b, ip, url)
                      \/ Respond(b)
                      \/ RunScript(b, "right")

-----------------------------------------------------------------------------
AllChallenges == UNION {{c[i] : i \in DOMAIN c} : c \in Configurations}
BelowThreshold(n) == n <= 1 \/ \E ch \in AllChallenges : n < ch.fail_tolerance_threshold

\* The types; a record stays below the threshold of some challenge, because the
\* failure that reaches the threshold of its challenge bans and drops the record
\* (a success leaves 1, whatever the thresholds).
TypeOK ==
    /\ clock \in 0..MaxTime
    /\ challenges \in Configurations
    /\ count \in [IPs -> Nat] /\ \A ip \in IPs : BelowThreshold(count[ip])
    /\ bans \subseteq IPs
    /\ txn \in [Browsers -> Txn]
    /\ cookie \in [Browsers -> Cookie]
    /\ token \in [Browsers -> Cookie]
    /\ accepted \in [IPs -> SUBSET (0..MaxTime)]
    /\ captchas \subseteq IPs

Validities == {ch.challenge_validity_period : ch \in AllChallenges}
\* A challenge that every visitor has to pass: a computational one, or a captcha.
\* The cookie that auth.html makes of a wrong password is excluded for captchas,
\* because AdmittedRecently fails with it: for a captcha, check_cookie does not
\* look at what a script appended to the cookie.
Guarded(b) == \E i \in DOMAIN challenges :
                  \/ challenges[i].type = "sha_inverse"
                  \/ challenges[i].type = "captcha" /\ cookie[b].by # "wrong_password"

\* Whoever gets content past a captcha or a computational challenge, or fresh
\* content past a password, had a solution accepted from the very address it
\* comes from, at most challenge_validity_period before: no cookie works from
\* another address, after its time, or without a solution, through any
\* sequence of requests, answers, waits, address changes and reloads, within the
\* limit that Guarded sets.
AdmittedRecently ==
    [][\A b \in Browsers :
        /\ shown'[b] # shown[b]
        /\ \/ shown'[b].what = "fresh"
           \/ shown'[b].what = "content" /\ Guarded(b) /\ shown'[b].to \notin GloballyWhiteListed
        => \E s \in accepted'[shown'[b].to], v \in Validities :
               s <= shown'[b].at /\ shown'[b].at <= s + v]_vars

\* A host that had captchas only so far.
CaptchasOnly ==
    /\ challenges # << >> /\ \A i \in DOMAIN challenges : challenges[i].type = "captcha"
    /\ budget.reloads = MaxReloads

\* On a host that had captchas only so far, content goes only to addresses that
\* gave the text of a captcha in the time it was valid: the cookie that comes
\* with the image does not open the host itself.
CaptchaSolved ==
    CaptchasOnly =>
        \A b \in Browsers : shown[b].what = "content" =>
            shown[b].to \in captchas \cup GloballyWhiteListed
=============================================================================
