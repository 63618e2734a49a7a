-------------------------- MODULE ChallengerProofs --------------------------
(***************************************************************************)
(* Who is let in, proved for all browsers, addresses, configurations and   *)
(* times: AdmittedRecently and CaptchaSolved of Challenger.                *)
(***************************************************************************)
EXTENDS Challenger, SequenceTheorems, TLAPS

FullCookie ==
    [ip : IPs, text : Texts \cup {""}, till : Nat, by : {"server", "sha_inverse", "auth", "wrong_password"}]

Screen ==
    [what : {"nothing", "content", "fresh", "white_listed", "too_many_failures", "image",
             "OK", "X", "captcha", "sha_inverse", "auth", "solved"},
     to : IPs \cup {"nobody"}, at : Nat]

\* What the proofs need to know of the types.
TxnTyped(x) ==
    x.ip \in IPs /\ x.jar \in Cookie /\ x.answer \in Texts \cup {""} /\ x.challenge \in AllChallenges
Typed ==
    /\ clock \in Nat
    /\ challenges \in Configurations
    /\ txn = [b \in Browsers |-> txn[b]]
    /\ \A b \in Browsers : txn[b] # NoTxn => TxnTyped(txn[b])
    /\ cookie \in [Browsers -> Cookie]
    /\ token \in [Browsers -> Cookie]
    /\ shown \in [Browsers -> Screen]
    /\ accepted \in [IPs -> SUBSET Nat]
    /\ captchas \subseteq IPs
    /\ budget \in [requests : Nat, reloads : 0..MaxReloads]

\* A solution of the address was accepted, and the time is counted from there.
Earned(ip, till) ==
    \E s \in accepted[ip], v \in Validities : s <= clock /\ till <= s + v

\* Every cookie that opens a host is earned, unless it is made of a wrong
\* password; a token in a page is not older than its challenge allows.
CookieEarned(b) ==
    cookie[b] # NoCookie /\ cookie[b].text = "" /\ cookie[b].by # "wrong_password"
        => Earned(cookie[b].ip, cookie[b].till)
TokenFresh(b) ==
    token[b] # NoCookie =>
        token[b].text = "" /\ \E v \in Validities : token[b].till <= clock + v
Backed == \A b \in Browsers : CookieEarned(b) /\ TokenFresh(b)

\* On a host with captchas only, a cookie that opens it belongs to an address
\* that gave a text, also the one that a waiting request came with.
Opens(jar) == jar # NoCookie /\ jar.text = "" => jar.ip \in captchas
CaptchaBacked(b) ==
    /\ Opens(cookie[b]) /\ token[b] = NoCookie
    /\ txn[b] # NoTxn => Opens(txn[b].jar) /\ txn[b].challenge.type = "captcha"
    /\ shown[b].what = "content" => shown[b].to \in captchas \cup GloballyWhiteListed
CaptchaInvariant == CaptchasOnly => \A b \in Browsers : CaptchaBacked(b)

AdmissionInvariant == Typed /\ Backed /\ CaptchaInvariant

-----------------------------------------------------------------------------
LEMMA Members ==
    /\ \A jar \in Cookie : jar # NoCookie => jar \in FullCookie
    /\ FullCookie \subseteq Cookie /\ NoCookie \in Cookie
    /\ NoCookie \notin FullCookie
<1>1. NoCookie \notin FullCookie
  BY DEF NoCookie, FullCookie
<1> QED
  BY <1>1 DEF Cookie, FullCookie

LEMMA Periods ==
    /\ \A c \in Configurations : \A i \in DOMAIN c : c[i] \in Challenge /\ c[i] \in AllChallenges
    /\ \A ch \in AllChallenges : ch \in Challenge /\ ch.challenge_validity_period \in Validities
    /\ Validities \subseteq Nat
<1>1. ASSUME NEW c \in Configurations, NEW i \in DOMAIN c PROVE c[i] \in Challenge
  <2>1. c \in Seq(Challenge)
    BY ChallengerAssumption
  <2> QED
    BY <2>1
<1>2. \A c \in Configurations : \A i \in DOMAIN c : c[i] \in AllChallenges
  BY DEF AllChallenges
<1>3. \A ch \in AllChallenges : ch \in Challenge
  BY <1>1 DEF AllChallenges
<1>4. \A ch \in AllChallenges : ch.challenge_validity_period \in Validities
  BY DEF Validities
<1>5. Validities \subseteq Nat
  BY <1>3 DEF Validities, Challenge
<1> QED
  BY <1>1, <1>2, <1>3, <1>4, <1>5

LEMMA AdmissionInit == Init => AdmissionInvariant
<1> SUFFICES ASSUME Init PROVE AdmissionInvariant
  OBVIOUS
<1>1. Typed
  <2>1. budget \in [requests : Nat, reloads : 0..MaxReloads]
    <3>1. MaxRequests \in Nat /\ MaxReloads \in Nat
      BY ChallengerAssumption
    <3>2. MaxReloads \in 0..MaxReloads
      BY <3>1
    <3>3. budget = [requests |-> MaxRequests, reloads |-> MaxReloads]
      BY DEF Init
    <3> QED
      BY <3>1, <3>2, <3>3
  <2>2. txn = [b \in Browsers |-> txn[b]] /\ cookie \in [Browsers -> Cookie] /\ token \in [Browsers -> Cookie]
    BY Members DEF Init
  <2>3. \A b \in Browsers : txn[b] = NoTxn
    BY DEF Init
  <2>4. accepted \in [IPs -> SUBSET Nat] /\ captchas \subseteq IPs
    BY DEF Init
  <2>5. shown \in [Browsers -> Screen]
    <3>1. shown = [b \in Browsers |-> [what |-> "nothing", to |-> "nobody", at |-> 0]]
      BY DEF Init
    <3>2. [what |-> "nothing", to |-> "nobody", at |-> 0] \in Screen
      BY DEF Screen
    <3> QED
      BY <3>1, <3>2
  <2> QED
    BY <2>1, <2>2, <2>3, <2>4, <2>5 DEF Init, Typed
<1>2. Backed
  BY DEF Init, Backed, CookieEarned, TokenFresh
<1>3. CaptchaInvariant
  BY DEF Init, CaptchaInvariant, CaptchaBacked, Opens
<1> QED
  BY <1>1, <1>2, <1>3 DEF AdmissionInvariant

-----------------------------------------------------------------------------
(* The decision on a request *)

Shows(b, ip, url, w) ==
    /\ txn' = txn
    /\ shown' = [shown EXCEPT ![b] = [what |-> w, to |-> ip, at |-> clock]]
    /\ w = "content" =>
          \A i \in DOMAIN challenges : Passes(Outcome(challenges[i], ip, url, cookie[b]))
    /\ w = "fresh" =>
          \E k \in DOMAIN challenges : Outcome(challenges[k], ip, url, cookie[b]) = "serve_fresh"
Waits(b, ip, url, answer, k, banned, delete) ==
    /\ shown' = shown
    /\ txn' = [txn EXCEPT ![b] =
                  [url |-> url, answer |-> answer, ip |-> ip, jar |-> cookie[b],
                   challenge |-> challenges[k], banned_ip |-> banned, delete |-> delete]]

LEMMA DecideEffect ==
    ASSUME Typed, NEW b \in Browsers, NEW ip \in IPs, NEW url, NEW answer, Decide(b, ip, url, answer)
    PROVE  /\ clock' = clock /\ challenges' = challenges /\ cookie' = cookie /\ token' = token
           /\ accepted' = accepted /\ captchas' = captchas
           /\ \/ \E w \in {"content", "fresh", "white_listed"} : Shows(b, ip, url, w)
              \/ \E k \in DOMAIN challenges : \E banned, delete :
                     Waits(b, ip, url, answer, k, banned, delete)
  BY DEF Decide, Shows, Waits

-----------------------------------------------------------------------------
(* Every step that serves one browser *)

\* What one browser gets: a screen, a waiting transaction, a cookie, a token.
Served(b, screen, waiting, jar, page) ==
    /\ screen \in Screen /\ jar \in Cookie /\ page \in Cookie
    /\ shown' = [shown EXCEPT ![b] = screen] /\ txn' = [txn EXCEPT ![b] = waiting]
    /\ cookie' = [cookie EXCEPT ![b] = jar] /\ token' = [token EXCEPT ![b] = page]
    /\ clock' = clock /\ challenges' = challenges
    /\ budget' \in [requests : Nat, reloads : {budget.reloads}]

\* The histories only grow.
Grown ==
    /\ accepted' \in [IPs -> SUBSET Nat] /\ \A ip \in IPs : accepted[ip] \subseteq accepted'[ip]
    /\ captchas \subseteq captchas' /\ captchas' \subseteq IPs

\* What is given is backed as the invariant asks.
Honest(waiting, jar, page) ==
    /\ waiting # NoTxn => TxnTyped(waiting)
    /\ jar # NoCookie /\ jar.text = "" /\ jar.by # "wrong_password" =>
           \E s \in accepted'[jar.ip], v \in Validities : s <= clock /\ jar.till <= s + v
    /\ page # NoCookie => page.text = "" /\ \E v \in Validities : page.till <= clock + v
HonestCaptcha(screen, waiting, jar, page) ==
    /\ jar # NoCookie /\ jar.text = "" => jar.ip \in captchas'
    /\ page = NoCookie
    /\ waiting # NoTxn =>
          /\ waiting.jar # NoCookie /\ waiting.jar.text = "" => waiting.jar.ip \in captchas'
          /\ waiting.challenge.type = "captcha"
    /\ screen.what = "content" => screen.to \in captchas' \cup GloballyWhiteListed

LEMMA Turn ==
    ASSUME AdmissionInvariant, NEW b \in Browsers, NEW screen, NEW waiting, NEW jar, NEW page,
           Served(b, screen, waiting, jar, page), Grown, Honest(waiting, jar, page),
           CaptchasOnly => HonestCaptcha(screen, waiting, jar, page)
    PROVE  AdmissionInvariant'
<1>0. Typed
  BY DEF AdmissionInvariant
<1>1. Typed'
  <2>1. \A x \in Browsers : txn'[x] = IF x = b THEN waiting ELSE txn[x]
    BY <1>0 DEF Typed, Served
  <2>2. txn' = [x \in Browsers |-> txn'[x]]
    BY <1>0 DEF Typed, Served
  <2>3. \A x \in Browsers : txn'[x] # NoTxn => TxnTyped(txn'[x])
    BY <1>0, <2>1 DEF Typed, Honest
  <2>4. cookie' \in [Browsers -> Cookie] /\ token' \in [Browsers -> Cookie] /\ shown' \in [Browsers -> Screen]
    BY <1>0 DEF Typed, Served
  <2>5. budget' \in [requests : Nat, reloads : 0..MaxReloads]
    BY <1>0 DEF Typed, Served
  <2>6. clock' \in Nat /\ challenges' \in Configurations
    BY <1>0 DEF Typed, Served
  <2>7. \A x \in Browsers : txn'[x] # NoTxn => TxnTyped(txn[x])' 
    BY <2>3 DEF TxnTyped, AllChallenges
  <2>8. accepted' \in [IPs -> SUBSET Nat] /\ captchas' \subseteq IPs
    BY DEF Grown
  <2> QED
    BY <2>2, <2>4, <2>5, <2>6, <2>7, <2>8 DEF Typed
<1>2. Backed'
  <2> SUFFICES ASSUME NEW x \in Browsers PROVE CookieEarned(x)' /\ TokenFresh(x)'
    BY DEF Backed
  <2>1. CASE x = b
    <3>1. cookie'[x] = jar /\ token'[x] = page /\ clock' = clock /\ Validities' = Validities
      BY <1>0, <2>1 DEF Typed, Served, Validities, AllChallenges
    <3> QED
      BY <3>1 DEF CookieEarned, TokenFresh, Earned, Honest
  <2>2. CASE x # b
    <3>1. cookie'[x] = cookie[x] /\ token'[x] = token[x] /\ clock' = clock /\ Validities' = Validities
      BY <1>0, <2>2 DEF Typed, Served, Validities, AllChallenges
    <3>2. TokenFresh(x)'
      BY <3>1 DEF AdmissionInvariant, Backed, TokenFresh
    <3>3. ASSUME cookie[x] # NoCookie, cookie[x].text = "", cookie[x].by # "wrong_password"
          PROVE  Earned(cookie[x].ip, cookie[x].till)'
      <4>1. cookie[x] \in FullCookie
        BY <3>3, Members DEF AdmissionInvariant, Typed
      <4>2. cookie[x].ip \in IPs /\ cookie[x].till \in Nat
        BY <4>1 DEF FullCookie
      <4>3. Earned(cookie[x].ip, cookie[x].till)
        BY <3>3 DEF AdmissionInvariant, Backed, CookieEarned
      <4>4. clock' \in Nat /\ clock <= clock'
        BY <1>0, <3>1 DEF Typed
      <4>5. accepted[cookie[x].ip] \subseteq accepted'[cookie[x].ip]
        BY <4>2 DEF Grown
      <4> QED
        <5> DEFINE i == cookie[x].ip
                   till == cookie[x].till
        <5>1. PICK s \in accepted[i], v \in Validities : s <= clock /\ till <= s + v
          BY <4>3 DEF Earned
        <5>2. s \in accepted'[i] /\ s <= clock' /\ v \in Validities'
          BY <3>1, <4>5, <5>1
        <5> QED
          BY <3>1, <5>1, <5>2 DEF Earned
    <3> QED
      BY <3>1, <3>2, <3>3 DEF CookieEarned
  <2> QED
    BY <2>1, <2>2
<1>3. CaptchaInvariant'
  <2>1. CaptchasOnly' => CaptchasOnly
    BY <1>0 DEF CaptchasOnly, Served, Typed
  <2> SUFFICES ASSUME CaptchasOnly, NEW x \in Browsers PROVE CaptchaBacked(x)'
    BY <2>1 DEF CaptchaInvariant
  <2>2. CASE x = b
    <3>1. cookie'[x] = jar /\ token'[x] = page /\ shown'[x] = screen /\ txn'[x] = waiting
      BY <1>0, <2>2 DEF Typed, Served
    <3> QED
      BY <3>1 DEF CaptchaBacked, Opens, HonestCaptcha
  <2>3. CASE x # b
    <3>1. cookie'[x] = cookie[x] /\ token'[x] = token[x] /\ shown'[x] = shown[x] /\ txn'[x] = txn[x]
      BY <1>0, <2>3 DEF Typed, Served
    <3>2. CaptchaBacked(x)
      BY DEF AdmissionInvariant, CaptchaInvariant
    <3> QED
      BY <3>1, <3>2 DEF CaptchaBacked, Opens, Grown
  <2> QED
    BY <2>2, <2>3
<1> QED
  BY <1>1, <1>2, <1>3 DEF AdmissionInvariant

-----------------------------------------------------------------------------
(* What a challenge that is passed shows *)

LEMMA PassedChallenge ==
    ASSUME NEW ch \in Challenge, NEW ip, ip \notin GloballyWhiteListed, NEW url, NEW jar,
           ch.type # "auth", Passes(Outcome(ch, ip, url, jar))
    PROVE  check_cookie("", ip, jar, ch)
  BY DEF Outcome, Passes, Challenge

LEMMA FreshChallenge ==
    ASSUME NEW ch \in Challenge, NEW ip, NEW url, NEW jar, Outcome(ch, ip, url, jar) = "serve_fresh"
    PROVE  ch.type = "auth" /\ check_cookie("", ip, jar, ch)
  BY DEF Outcome, Challenge

LEMMA NotAfter == \A c, t, x, y \in Nat : ~(t < c) /\ t <= x + y => c <= x + y
  OBVIOUS

\* A cookie that passes the check is still within the time of a solution.
LEMMA CheckedCookie ==
    ASSUME Typed, Backed, NEW b \in Browsers, NEW ip \in IPs, NEW ch,
           check_cookie("", ip, cookie[b], ch), cookie[b].by # "wrong_password"
    PROVE  \E s \in accepted[ip], v \in Validities : s <= clock /\ clock <= s + v
<1>1. cookie[b] # NoCookie /\ cookie[b].ip = ip /\ cookie[b].text = "" /\ ~(cookie[b].till < clock)
  BY DEF check_cookie, ValidateCookie, SameAddress, SameText, Expired
<1>2. cookie[b].till \in Nat /\ clock \in Nat
  <2>1. cookie[b] \in FullCookie /\ clock \in Nat
    BY <1>1, Members DEF Typed
  <2> QED
    BY <2>1 DEF FullCookie
<1>3. PICK s \in accepted[ip], v \in Validities : s <= clock /\ cookie[b].till <= s + v
  BY <1>1 DEF Backed, CookieEarned, Earned
<1>4. s \in Nat /\ v \in Nat
  BY Periods DEF Typed
<1>5. clock <= s + v
  BY <1>1, <1>2, <1>3, <1>4, NotAfter
<1> QED
  BY <1>3, <1>5

\* What a request leaves to a browser that keeps its cookie and its token.
LEMMA KeepsJar ==
    ASSUME AdmissionInvariant, NEW b \in Browsers, UNCHANGED <<clock, accepted, captchas>>,
           NEW waiting, waiting # NoTxn => TxnTyped(waiting)
    PROVE  /\ Grown
           /\ Honest(waiting, cookie[b], token[b])
           /\ cookie[b] \in Cookie /\ token[b] \in Cookie
           /\ cookie = [cookie EXCEPT ![b] = cookie[b]] /\ token = [token EXCEPT ![b] = token[b]]
           /\ txn = [txn EXCEPT ![b] = txn[b]] /\ shown = [shown EXCEPT ![b] = shown[b]]
           /\ shown[b] \in Screen /\ (txn[b] # NoTxn => TxnTyped(txn[b]))
<1>1. Typed /\ CookieEarned(b) /\ TokenFresh(b)
  BY DEF AdmissionInvariant, Backed
<1>2. Grown
  BY <1>1 DEF Typed, Grown
<1>3. Honest(waiting, cookie[b], token[b])
  BY <1>1 DEF CookieEarned, Earned, TokenFresh, Honest
<1> QED
  BY <1>1, <1>2, <1>3 DEF Typed

LEMMA SpentRequest ==
    ASSUME Typed, budget.requests > 0, budget' = [budget EXCEPT !.requests = @ - 1]
    PROVE  budget' \in [requests : Nat, reloads : {budget.reloads}]
<1>1. budget \in [requests : Nat, reloads : 0..MaxReloads]
  BY DEF Typed
<1>2. budget.requests \in Nat
  BY <1>1
<1>3. budget.requests - 1 \in Nat
  BY <1>2
<1>4. budget' = [requests |-> budget.requests - 1, reloads |-> budget.reloads]
  BY <1>1
<1> QED
  BY <1>3, <1>4

LEMMA FirstChallenge ==
    ASSUME Typed, challenges # << >>
    PROVE  1 \in DOMAIN challenges
<1>1. challenges \in Seq(Challenge)
  BY ChallengerAssumption DEF Typed
<1>2. Len(challenges) # 0
  BY <1>1, EmptySeq
<1>3. Len(challenges) \in Nat /\ DOMAIN challenges = 1..Len(challenges)
  BY <1>1, LenProperties
<1> HIDE DEF Typed
<1> QED
  BY <1>2, <1>3

LEMMA RequestStep ==
    ASSUME AdmissionInvariant, NEW b \in Browsers, NEW ip \in IPs, NEW url,
           NEW answer \in Texts \cup {""}, Request(b, ip, url, answer)
    PROVE  AdmissionInvariant'
<1>0. Typed
  BY DEF AdmissionInvariant
<1>1. Decide(b, ip, url, answer)
  BY DEF Request
<1>2. budget' \in [requests : Nat, reloads : {budget.reloads}]
  BY <1>0, SpentRequest DEF Request
<1>3. /\ clock' = clock /\ challenges' = challenges /\ cookie' = cookie /\ token' = token
      /\ accepted' = accepted /\ captchas' = captchas
  BY <1>0, <1>1, DecideEffect
<1>4. CaptchasOnly => CaptchaBacked(b)
  BY DEF AdmissionInvariant, CaptchaInvariant
<1>5. ASSUME NEW w \in {"content", "fresh", "white_listed"}, Shows(b, ip, url, w)
      PROVE  AdmissionInvariant'
  <2> DEFINE screen == [what |-> w, to |-> ip, at |-> clock]
  <2>1. screen \in Screen
    BY <1>0 DEF Screen, Typed
  <2>2. txn[b] # NoTxn => TxnTyped(txn[b])
    BY <1>0 DEF Typed
  <2>3. Grown /\ Honest(txn[b], cookie[b], token[b])
    BY <1>3, <2>2, KeepsJar
  <2>4. Served(b, screen, txn[b], cookie[b], token[b])
    <3>1. shown' = [shown EXCEPT ![b] = screen] /\ txn' = txn
      BY <1>5 DEF Shows
    <3> HIDE DEF screen
    <3> QED
      BY <1>2, <1>3, <2>1, <2>2, <3>1, KeepsJar DEF Served
  <2>5. ASSUME CaptchasOnly, w = "content", ip \notin GloballyWhiteListed PROVE ip \in captchas
    <3>1. PICK i \in DOMAIN challenges : challenges[i].type = "captcha"
      <4>1. 1 \in DOMAIN challenges
        BY <1>0, <2>5, FirstChallenge DEF CaptchasOnly
      <4> QED
        BY <2>5, <4>1 DEF CaptchasOnly
    <3>2. check_cookie("", ip, cookie[b], challenges[i])
      BY <1>0, <1>5, <2>5, <3>1, PassedChallenge, Periods DEF Typed, Shows
    <3> QED
      BY <1>4, <2>5, <3>2
      DEF check_cookie, ValidateCookie, SameAddress, SameText, CaptchaBacked, Opens
  <2>6. CaptchasOnly => HonestCaptcha(screen, txn[b], cookie[b], token[b])
    <3>1. screen.what = w /\ screen.to = ip
      OBVIOUS
    <3> HIDE DEF screen
    <3> QED
      BY <1>3, <1>4, <2>5, <3>1 DEF HonestCaptcha, CaptchaBacked, Opens
  <2> HIDE DEF screen
  <2> QED
    BY <2>3, <2>4, <2>6, Turn
<1>6. ASSUME NEW k \in DOMAIN challenges, NEW banned, NEW delete,
             Waits(b, ip, url, answer, k, banned, delete)
      PROVE  AdmissionInvariant'
  <2> DEFINE waiting == [url |-> url, answer |-> answer, ip |-> ip, jar |-> cookie[b],
                         challenge |-> challenges[k], banned_ip |-> banned, delete |-> delete]
  <2>1. /\ waiting.jar = cookie[b] /\ waiting.challenge = challenges[k]
        /\ waiting.ip = ip /\ waiting.answer = answer /\ txn' = [txn EXCEPT ![b] = waiting]
        /\ shown' = shown
    BY <1>6 DEF Waits
  <2> HIDE DEF waiting
  <2>2. TxnTyped(waiting)
    BY <1>0, <2>1, Periods DEF TxnTyped, Typed
  <2>3. Grown /\ Honest(waiting, cookie[b], token[b])
    BY <1>3, <2>2, KeepsJar
  <2>4. Served(b, shown[b], waiting, cookie[b], token[b])
    BY <1>2, <1>3, <2>1, <2>2, KeepsJar DEF Served
  <2>5. CaptchasOnly => HonestCaptcha(shown[b], waiting, cookie[b], token[b])
    BY <1>3, <1>4, <2>1 DEF HonestCaptcha, CaptchaBacked, Opens, CaptchasOnly
  <2> QED
    BY <2>3, <2>4, <2>5, Turn
<1> QED
  BY <1>0, <1>1, <1>5, <1>6, DecideEffect

-----------------------------------------------------------------------------
(* The answers *)

Answers == {"too_many_failures", "image", "OK", "X", "captcha", "sha_inverse", "auth"}

LEMMA AnswerStep ==
    ASSUME AdmissionInvariant, NEW b \in Browsers, txn[b] # NoTxn, NEW what \in Answers,
           NEW newcookie \in Cookie, NEW newtoken \in Cookie, NEW m,
           Answer(b, what, newcookie, newtoken, m),
           Grown, Honest(NoTxn, newcookie, newtoken),
           CaptchasOnly =>
               /\ newcookie # NoCookie /\ newcookie.text = "" => newcookie.ip \in captchas'
               /\ newtoken = NoCookie
    PROVE  AdmissionInvariant'
<1> DEFINE screen == [what |-> what, to |-> txn[b].ip, at |-> clock]
           jar == IF txn[b].delete THEN NoCookie ELSE newcookie
<1>0. Typed
  BY DEF AdmissionInvariant
<1>1. screen \in Screen /\ screen.what # "content"
  BY <1>0 DEF Screen, Typed, TxnTyped, Answers
<1>2. jar \in Cookie /\ (jar = NoCookie \/ jar = newcookie)
  BY Members
<1>3. budget' \in [requests : Nat, reloads : {budget.reloads}]
  <2>1. budget \in [requests : Nat, reloads : 0..MaxReloads] /\ budget' = budget
    BY <1>0 DEF Typed, Answer
  <2> QED
    BY <2>1
<1>4. /\ shown' = [shown EXCEPT ![b] = screen] /\ txn' = [txn EXCEPT ![b] = NoTxn]
      /\ cookie' = [cookie EXCEPT ![b] = jar] /\ token' = [token EXCEPT ![b] = newtoken]
      /\ clock' = clock /\ challenges' = challenges
  BY DEF Answer
<1> HIDE DEF screen, jar
<1>5. Served(b, screen, NoTxn, jar, newtoken)
  BY <1>1, <1>2, <1>3, <1>4 DEF Served
<1>6. Honest(NoTxn, jar, newtoken)
  BY <1>2 DEF Honest
<1>7. CaptchasOnly => HonestCaptcha(screen, NoTxn, jar, newtoken)
  BY <1>1, <1>2 DEF HonestCaptcha
<1> QED
  BY <1>5, <1>6, <1>7, Turn

\* An answer that leaves the cookie and the histories as they are.
LEMMA PlainAnswer ==
    ASSUME AdmissionInvariant, NEW b \in Browsers, txn[b] # NoTxn, NEW what \in Answers,
           NEW newtoken \in Cookie, NEW m, Answer(b, what, cookie[b], newtoken, m),
           accepted' = accepted, captchas' = captchas,
           newtoken # NoCookie =>
               newtoken.text = "" /\ \E v \in Validities : newtoken.till <= clock + v,
           CaptchasOnly => newtoken = NoCookie
    PROVE  AdmissionInvariant'
<1>1. UNCHANGED <<clock, accepted, captchas>>
  BY DEF Answer
<1>2. Grown /\ Honest(NoTxn, cookie[b], token[b]) /\ cookie[b] \in Cookie
  BY <1>1, KeepsJar
<1>3. Honest(NoTxn, cookie[b], newtoken)
  BY <1>2 DEF Honest
<1>4. CaptchasOnly => (cookie[b] # NoCookie /\ cookie[b].text = "" => cookie[b].ip \in captchas')
  BY DEF AdmissionInvariant, CaptchaInvariant, CaptchaBacked, Opens
<1> QED
  BY <1>2, <1>3, <1>4, AnswerStep

LEMMA ImageStep ==
    ASSUME AdmissionInvariant, NEW b \in Browsers, Image(b)
    PROVE  AdmissionInvariant'
<1>1. PICK text \in Texts : Answer(b, "image", GenerateCookie(text, clock + CaptchaTime, txn[b].ip),
                                   NoCookie, count[txn[b].ip])
  BY DEF Image
<1>2. txn[b] # NoTxn /\ accepted' = accepted /\ captchas' = captchas
  BY DEF Image
<1>3. txn[b].ip \in IPs /\ clock \in Nat /\ CaptchaTime \in Nat /\ text # ""
  BY <1>2, ChallengerAssumption DEF AdmissionInvariant, Typed, TxnTyped
<1> DEFINE till == clock + CaptchaTime
           ip == txn[b].ip
           new == GenerateCookie(text, till, ip)
<1>4. new \in Cookie /\ new.text # ""
  <2>1. till \in Nat /\ ip \in IPs /\ text \in Texts \cup {""} /\ text # ""
    <3>1. clock \in Nat /\ CaptchaTime \in Nat
      BY <1>3
    <3>2. till \in Nat
      BY <3>1
    <3>3. ip \in IPs /\ text \in Texts \cup {""} /\ text # ""
      BY <1>3
    <3> QED
      BY <3>2, <3>3
  <2> HIDE DEF till, ip
  <2> QED
    BY <2>1 DEF GenerateCookie, Cookie
<1> HIDE DEF new
<1>5. Honest(NoTxn, new, NoCookie)
  BY <1>4 DEF Honest
<1>6. Grown
  BY <1>2 DEF AdmissionInvariant, Typed, Grown
<1>7. Answer(b, "image", new, NoCookie, count[txn[b].ip])
  BY <1>1 DEF new
<1> QED
  BY <1>2, <1>4, <1>5, <1>6, <1>7, AnswerStep, Members DEF Answers

LEMMA TooManyFailuresStep ==
    ASSUME AdmissionInvariant, NEW b \in Browsers, TooManyFailures(b)
    PROVE  AdmissionInvariant'
<1>1. /\ txn[b] # NoTxn /\ accepted' = accepted /\ captchas' = captchas
      /\ Answer(b, "too_many_failures", cookie[b], NoCookie, count[txn[b].ip])
  BY DEF TooManyFailures
<1> QED
  BY <1>1, PlainAnswer, Members DEF Answers

LEMMA PageStep ==
    ASSUME AdmissionInvariant, NEW b \in Browsers, Page(b)
    PROVE  AdmissionInvariant'
<1> DEFINE ch == txn[b].challenge
           new == IF ch.type = "captcha" THEN NoCookie ELSE GenerateCookie("", Till(ch), txn[b].ip)
<1>1. /\ txn[b] # NoTxn /\ accepted' = accepted /\ captchas' = captchas
      /\ Answer(b, ch.type, cookie[b], new, count[txn[b].ip])
  BY DEF Page
<1>2. /\ ch \in AllChallenges /\ ch \in Challenge /\ ch.challenge_validity_period \in Validities
      /\ txn[b].ip \in IPs /\ clock \in Nat
  BY <1>1, Periods DEF AdmissionInvariant, Typed, TxnTyped
<1>3. ch.type \in Answers
  BY <1>2 DEF Challenge, Answers
<1>4. /\ Till(ch) \in Nat /\ txn[b].ip \in IPs
      /\ \E v \in Validities : Till(ch) <= clock + v
  <2>1. ch.challenge_validity_period \in Nat /\ clock \in Nat
    BY <1>2, Periods
  <2>2. Till(ch) = clock + ch.challenge_validity_period
    BY DEF Till
  <2> HIDE DEF ch
  <2>3. Till(ch) \in Nat /\ Till(ch) <= clock + ch.challenge_validity_period
    BY <2>1, <2>2
  <2> QED
    BY <1>2, <2>3
<1>5. /\ new \in Cookie
      /\ new # NoCookie => new.text = "" /\ new.till = Till(ch)
  <2> DEFINE till == Till(ch)
             ip == txn[b].ip
  <2>1. till \in Nat /\ ip \in IPs
    BY <1>4
  <2> HIDE DEF till, ip
  <2>2. LET c == GenerateCookie("", till, ip) IN c \in Cookie /\ c.text = "" /\ c.till = till
    BY <2>1 DEF GenerateCookie, Cookie
  <2> QED
    BY <2>2, Members DEF till, ip
<1>6. CaptchasOnly => new = NoCookie
  BY <1>1 DEF AdmissionInvariant, CaptchaInvariant, CaptchaBacked
<1> HIDE DEF new, ch
<1>7. new # NoCookie => new.text = "" /\ \E v \in Validities : new.till <= clock + v
  BY <1>4, <1>5
<1> QED
  BY <1>1, <1>3, <1>5, <1>6, <1>7, PlainAnswer

LEMMA ValidateStep ==
    ASSUME AdmissionInvariant, NEW b \in Browsers, Validate(b)
    PROVE  AdmissionInvariant'
<1> DEFINE ip == txn[b].ip
           ch == txn[b].challenge
<1>0. Typed /\ txn[b] # NoTxn
  BY DEF AdmissionInvariant, Validate
<1>1. /\ ip \in IPs /\ ch \in AllChallenges /\ ch.challenge_validity_period \in Validities
      /\ txn[b].answer \in Texts \cup {""}
  BY <1>0, Periods DEF Typed, TxnTyped
<1>2. CASE /\ check_cookie(txn[b].answer, ip, txn[b].jar, ch)
           /\ Answer(b, "OK", GenerateCookie("", Till(ch), ip), NoCookie, count[ip])
           /\ accepted' = [accepted EXCEPT ![ip] = @ \cup {clock}]
           /\ captchas' = IF txn[b].answer # "" THEN captchas \cup {ip} ELSE captchas
  <2> DEFINE v == ch.challenge_validity_period
             till == Till(ch)
             new == GenerateCookie("", till, ip)
  <2>1. clock \in Nat /\ v \in Nat
    BY <1>0, <1>1, Periods DEF Typed
  <2>2. till = clock + v
    BY DEF Till
  <2>3. ip \in IPs /\ v \in Validities
    BY <1>1
  <2>4. /\ check_cookie(txn[b].answer, ip, txn[b].jar, ch)
        /\ Answer(b, "OK", new, NoCookie, count[ip])
        /\ accepted' = [accepted EXCEPT ![ip] = @ \cup {clock}]
        /\ captchas' = IF txn[b].answer # "" THEN captchas \cup {ip} ELSE captchas
    BY <1>2
  <2>5. accepted \in [IPs -> SUBSET Nat] /\ captchas \subseteq IPs
    BY <1>0 DEF Typed
  <2> HIDE DEF till, v
  <2>6. till \in Nat /\ clock <= clock /\ till <= clock + v
    BY <2>1, <2>2
  <2>7. CaptchasOnly => ip \in captchas'
    <3> SUFFICES ASSUME CaptchasOnly, txn[b].answer = "" PROVE ip \in captchas
      BY <2>4
    <3>1. CaptchaBacked(b)
      BY DEF AdmissionInvariant, CaptchaInvariant
    <3> QED
      BY <1>0, <2>4, <3>1
      DEF check_cookie, ValidateCookie, SameAddress, SameText, CaptchaBacked, Opens
  <2> HIDE DEF ip, ch
  <2>8. new \in Cookie /\ new.ip = ip /\ new.text = "" /\ new.till = till
    BY <2>3, <2>6 DEF GenerateCookie, Cookie
  <2> HIDE DEF new
  <2>9. Grown
    BY <2>1, <2>3, <2>4, <2>5 DEF Grown
  <2>10. clock \in accepted'[ip]
    BY <2>3, <2>4, <2>5
  <2>11. Honest(NoTxn, new, NoCookie)
    BY <2>3, <2>6, <2>8, <2>10 DEF Honest
  <2> QED
    BY <1>0, <2>4, <2>7, <2>8, <2>9, <2>11, AnswerStep, Members DEF Answers
<1>3. CASE /\ Answer(b, "X", cookie[b], NoCookie, CountAfterFailure(count[ip], ch))
           /\ accepted' = accepted /\ captchas' = captchas
  BY <1>0, <1>3, PlainAnswer, Members DEF Answers
<1> QED
  BY <1>2, <1>3 DEF Validate

-----------------------------------------------------------------------------
(* The script in the page *)

LEMMA RunScriptStep ==
    ASSUME AdmissionInvariant, NEW b \in Browsers, NEW password, RunScript(b, password)
    PROVE  AdmissionInvariant'
<1> DEFINE right == shown[b].what = "sha_inverse" \/ password = "right"
           by == IF right THEN shown[b].what ELSE "wrong_password"
           new == [token[b] EXCEPT !.by = by]
           ip == token[b].ip
           screen == [shown[b] EXCEPT !.what = "solved"]
<1>0. Typed
  BY DEF AdmissionInvariant
<1>1. /\ token[b] # NoCookie /\ shown[b].what \in {"sha_inverse", "auth"} /\ txn[b] = NoTxn
      /\ cookie' = [cookie EXCEPT ![b] = new]
      /\ accepted' = [accepted EXCEPT ![ip] = IF right THEN @ \cup {clock} ELSE @]
      /\ token' = [token EXCEPT ![b] = NoCookie]
      /\ clock' = clock /\ challenges' = challenges /\ txn' = txn
      /\ captchas' = captchas /\ budget' = budget
  BY DEF RunScript
<1>2. token[b] \in FullCookie
  BY <1>0, <1>1, Members DEF Typed
<1>3. /\ new \in Cookie /\ new.ip = ip /\ new.text = token[b].text /\ new.till = token[b].till
      /\ ip \in IPs /\ new.by = by
  <2>1. by \in {"sha_inverse", "auth", "wrong_password"}
    BY <1>1
  <2> HIDE DEF by
  <2>2. new \in FullCookie
    BY <1>2, <2>1 DEF FullCookie
  <2> QED
    BY <1>2, <2>2, Members DEF FullCookie
<1>4. PICK v \in Validities : token[b].till <= clock + v
  BY <1>1 DEF AdmissionInvariant, Backed, TokenFresh
<1>5. screen \in Screen /\ screen.what = "solved" /\ shown' = [shown EXCEPT ![b] = screen]
  <2>1. shown[b] \in Screen /\ shown \in [Browsers -> Screen]
    BY <1>0 DEF Typed
  <2>2. screen \in Screen /\ screen.what = "solved"
    BY <2>1 DEF Screen
  <2>3. shown' = [shown EXCEPT ![b].what = "solved"]
    BY DEF RunScript
  <2> QED
    BY <2>1, <2>2, <2>3
<1>6. accepted \in [IPs -> SUBSET Nat] /\ captchas \subseteq IPs /\ clock \in Nat
  BY <1>0 DEF Typed
<1>7. Grown
  <2> HIDE DEF ip, right
  <2> QED
    BY <1>1, <1>3, <1>6 DEF Grown
<1>8. right => clock \in accepted'[ip]
  <2> HIDE DEF ip, right
  <2> QED
    BY <1>1, <1>3, <1>6
<1>9. by # "wrong_password" => right
  OBVIOUS
<1>10. budget' \in [requests : Nat, reloads : {budget.reloads}]
  <2>1. budget \in [requests : Nat, reloads : 0..MaxReloads]
    BY <1>0 DEF Typed
  <2> QED
    BY <1>1, <2>1
<1>11. txn' = [txn EXCEPT ![b] = NoTxn]
  BY <1>0, <1>1 DEF Typed
<1>12. CaptchasOnly => FALSE
  BY <1>1 DEF AdmissionInvariant, CaptchaInvariant, CaptchaBacked
<1> HIDE DEF screen, new, ip, by, right
<1>13. Served(b, screen, NoTxn, new, NoCookie)
  BY <1>1, <1>3, <1>5, <1>10, <1>11, Members DEF Served
<1>14. clock <= clock
  BY <1>6
<1>15. Honest(NoTxn, new, NoCookie)
  BY <1>3, <1>4, <1>8, <1>9, <1>14 DEF Honest
<1> QED
  BY <1>7, <1>12, <1>13, <1>15, Turn

-----------------------------------------------------------------------------
(* A reload, and time *)

LEMMA ReloadStep ==
    ASSUME AdmissionInvariant, Reload
    PROVE  AdmissionInvariant'
<1>0. Typed
  BY DEF AdmissionInvariant
<1>1. /\ clock' = clock /\ txn' = txn /\ cookie' = cookie /\ token' = token /\ shown' = shown
      /\ accepted' = accepted /\ captchas' = captchas /\ challenges' \in Configurations
      /\ budget.reloads > 0 /\ budget' = [budget EXCEPT !.reloads = @ - 1]
  BY DEF Reload
<1>2. budget' \in [requests : Nat, reloads : 0..MaxReloads] /\ budget'.reloads # MaxReloads
  <2>1. budget \in [requests : Nat, reloads : 0..MaxReloads] /\ MaxReloads \in Nat
    BY <1>0, ChallengerAssumption DEF Typed
  <2>2. budget.reloads \in 0..MaxReloads
    BY <2>1
  <2>3. budget' = [requests |-> budget.requests, reloads |-> budget.reloads - 1]
    BY <1>1, <2>1
  <2>4. budget.reloads - 1 \in 0..MaxReloads /\ budget.reloads - 1 # MaxReloads
    BY <1>1, <2>1, <2>2
  <2> QED
    BY <2>1, <2>3, <2>4
<1>3. Typed'
  BY <1>0, <1>1, <1>2 DEF Typed, TxnTyped, AllChallenges
<1>4. Backed'
  BY <1>1 DEF AdmissionInvariant, Backed, CookieEarned, TokenFresh, Earned, Validities, AllChallenges
<1>5. CaptchaInvariant'
  BY <1>2 DEF CaptchaInvariant, CaptchasOnly
<1> QED
  BY <1>3, <1>4, <1>5 DEF AdmissionInvariant

LEMMA TickStep ==
    ASSUME AdmissionInvariant, Tick
    PROVE  AdmissionInvariant'
<1>0. Typed
  BY DEF AdmissionInvariant
<1>1. /\ clock' = clock + 1 /\ txn' = txn /\ cookie' = cookie /\ token' = token /\ shown' = shown
      /\ accepted' = accepted /\ captchas' = captchas /\ challenges' = challenges
      /\ budget' = budget
  BY DEF Tick
<1>2. clock \in Nat /\ clock' \in Nat /\ clock <= clock'
  BY <1>0, <1>1 DEF Typed
<1>3. Typed'
  BY <1>0, <1>1, <1>2 DEF Typed, TxnTyped, AllChallenges
<1>4. Backed'
  <2> SUFFICES ASSUME NEW b \in Browsers PROVE CookieEarned(b)' /\ TokenFresh(b)'
    BY DEF Backed
  <2>1. CookieEarned(b) /\ TokenFresh(b)
    BY DEF AdmissionInvariant, Backed
  <2>2. ASSUME cookie[b] # NoCookie, cookie[b].text = "", cookie[b].by # "wrong_password"
        PROVE  Earned(cookie[b].ip, cookie[b].till)'
    <3> DEFINE ip == cookie[b].ip
               till == cookie[b].till
    <3>1. PICK s \in accepted[ip], v \in Validities : s <= clock /\ till <= s + v
      BY <2>1, <2>2 DEF CookieEarned, Earned
    <3>2. cookie[b] \in FullCookie
      BY <1>0, <2>2, Members DEF Typed
    <3>3. s \in Nat
      BY <1>0, <3>2 DEF Typed, FullCookie
    <3>4. s <= clock'
      BY <1>2, <3>1, <3>3
    <3> QED
      BY <1>1, <3>1, <3>4 DEF Earned, Validities, AllChallenges
  <2>3. CookieEarned(b)'
    BY <1>1, <2>2 DEF CookieEarned
  <2>4. TokenFresh(b)'
    <3> SUFFICES ASSUME token[b] # NoCookie
                 PROVE  token[b].text = "" /\ \E v \in Validities : token[b].till <= clock' + v
      BY <1>1 DEF TokenFresh, Validities, AllChallenges
    <3> DEFINE till == token[b].till
    <3>1. token[b].text = "" /\ \E v \in Validities : till <= clock + v
      BY <2>1 DEF TokenFresh
    <3>2. PICK v \in Validities : till <= clock + v
      BY <3>1
    <3>3. till \in Nat /\ v \in Nat
      <4>1. token[b] \in FullCookie
        BY <1>0, Members DEF Typed
      <4> QED
        BY <4>1, Periods DEF FullCookie
    <3> HIDE DEF till
    <3>4. till <= clock' + v
      BY <1>1, <1>2, <3>2, <3>3
    <3> QED
      BY <3>1, <3>4 DEF till
  <2> QED
    BY <2>3, <2>4
<1>5. CaptchaInvariant'
  BY <1>1 DEF AdmissionInvariant, CaptchaInvariant, CaptchasOnly, CaptchaBacked, Opens
<1> QED
  BY <1>3, <1>4, <1>5 DEF AdmissionInvariant

LEMMA StutterStep ==
    ASSUME AdmissionInvariant, UNCHANGED vars
    PROVE  AdmissionInvariant'
  BY DEF AdmissionInvariant, Typed, TxnTyped, Backed, CookieEarned, TokenFresh, Earned, Validities,
         AllChallenges, CaptchaInvariant, CaptchasOnly, CaptchaBacked, Opens, vars

LEMMA AdmissionStep == AdmissionInvariant /\ [Next]_vars => AdmissionInvariant'
<1> SUFFICES ASSUME AdmissionInvariant, [Next]_vars PROVE AdmissionInvariant'
  OBVIOUS
<1>1. ASSUME NEW b \in Browsers, NEW ip \in IPs, NEW url, NEW answer \in Texts \cup {""},
             Request(b, ip, url, answer)
      PROVE  AdmissionInvariant'
  BY <1>1, RequestStep
<1>2. ASSUME NEW b \in Browsers, Respond(b) PROVE AdmissionInvariant'
  BY <1>2, TooManyFailuresStep, ImageStep, ValidateStep, PageStep DEF Respond
<1>3. ASSUME NEW b \in Browsers, NEW password, RunScript(b, password) PROVE AdmissionInvariant'
  BY <1>3, RunScriptStep
<1>4. ASSUME BrowserStep PROVE AdmissionInvariant'
  <2>1. "" \in Texts \cup {""}
    OBVIOUS
  <2> QED
    BY <1>1, <1>2, <1>3, <1>4, <2>1 DEF BrowserStep
<1> QED
  BY <1>4, ReloadStep, TickStep, StutterStep DEF Next

-----------------------------------------------------------------------------
(* Who is let in *)

Solved(ip, at) == \E s \in accepted'[ip], v \in Validities : s <= at /\ at <= s + v
RecentlySolved(b) ==
    /\ shown'[b] # shown[b]
    /\ \/ shown'[b].what = "fresh"
       \/ shown'[b].what = "content" /\ Guarded(b) /\ shown'[b].to \notin GloballyWhiteListed
    => \E s \in accepted'[shown'[b].to], v \in Validities :
           s <= shown'[b].at /\ shown'[b].at <= s + v

LEMMA RequestAdmits ==
    ASSUME AdmissionInvariant, NEW b \in Browsers, NEW ip \in IPs, NEW url, NEW answer,
           Decide(b, ip, url, answer), NEW x \in Browsers
    PROVE  RecentlySolved(x)
<1>0. Typed /\ Backed
  BY DEF AdmissionInvariant
<1>1. accepted' = accepted
  BY <1>0, DecideEffect
<1>2. CASE shown'[x] = shown[x]
  BY <1>2 DEF RecentlySolved
<1>3. ASSUME x = b, NEW w \in {"content", "fresh", "white_listed"}, Shows(b, ip, url, w)
      PROVE  RecentlySolved(x)
  <2>1. shown'[b] = [what |-> w, to |-> ip, at |-> clock]
    BY <1>0, <1>3 DEF Typed, Shows
  <2>2. shown'[b].what = w /\ shown'[b].to = ip /\ shown'[b].at = clock
    BY <2>1
  <2>3. ASSUME NEW i \in DOMAIN challenges, check_cookie("", ip, cookie[b], challenges[i]),
               \/ challenges[i].type = "captcha" /\ cookie[b].by # "wrong_password"
               \/ challenges[i].type \in {"sha_inverse", "auth"}
        PROVE  Solved(ip, clock)
    <3>1. cookie[b].by # "wrong_password"
      BY <2>3 DEF check_cookie, Prevailed
    <3> QED
      BY <1>0, <1>1, <2>3, <3>1, CheckedCookie DEF Solved
  <2>4. ASSUME w = "fresh" PROVE Solved(ip, clock)
    <3>1. PICK k \in DOMAIN challenges : Outcome(challenges[k], ip, url, cookie[b]) = "serve_fresh"
      BY <1>3, <2>4 DEF Shows
    <3>2. challenges[k].type = "auth" /\ check_cookie("", ip, cookie[b], challenges[k])
      BY <1>0, <3>1, FreshChallenge, Periods DEF Typed
    <3> QED
      BY <2>3, <3>2
  <2>5. ASSUME w = "content", Guarded(b), ip \notin GloballyWhiteListed PROVE Solved(ip, clock)
    <3>1. PICK i \in DOMAIN challenges :
              \/ challenges[i].type = "sha_inverse"
              \/ challenges[i].type = "captcha" /\ cookie[b].by # "wrong_password"
      BY <2>5 DEF Guarded
    <3>2. challenges[i].type # "auth" /\ challenges[i] \in Challenge
      BY <1>0, <3>1, Periods DEF Typed
    <3>3. check_cookie("", ip, cookie[b], challenges[i])
      BY <1>3, <2>5, <3>2, PassedChallenge DEF Shows
    <3> QED
      BY <2>3, <3>1, <3>3
  <2> QED
    BY <1>3, <2>2, <2>4, <2>5 DEF RecentlySolved, Solved
<1>4. CASE x = b
  <2>1. ASSUME NEW k \in DOMAIN challenges, NEW banned, NEW delete,
               Waits(b, ip, url, answer, k, banned, delete)
        PROVE  RecentlySolved(x)
    BY <1>2, <2>1 DEF Waits
  <2> QED
    BY <1>0, <1>3, <1>4, <2>1, DecideEffect
<1>5. CASE x # b
  <2>1. ASSUME NEW w, Shows(b, ip, url, w) PROVE shown'[x] = shown[x]
    BY <1>0, <1>5, <2>1 DEF Typed, Shows
  <2>2. ASSUME NEW k \in DOMAIN challenges, NEW banned, NEW delete,
               Waits(b, ip, url, answer, k, banned, delete)
        PROVE  shown'[x] = shown[x]
    BY <2>2 DEF Waits
  <2> QED
    BY <1>0, <1>2, <2>1, <2>2, DecideEffect
<1> QED
  BY <1>4, <1>5

\* No answer and no script shows content.
LEMMA OthersAdmitNobody ==
    ASSUME AdmissionInvariant, NEW b \in Browsers, NEW x \in Browsers,
           Respond(b) \/ \E password \in {"right", "wrong"} : RunScript(b, password)
    PROVE  RecentlySolved(x)
<1>0. Typed
  BY DEF AdmissionInvariant
<1>1. ASSUME NEW what \in Answers, NEW newcookie, NEW newtoken, NEW m,
             Answer(b, what, newcookie, newtoken, m)
      PROVE  RecentlySolved(x)
  <2> DEFINE screen == [what |-> what, to |-> txn[b].ip, at |-> clock]
  <2>1. shown' = [shown EXCEPT ![b] = screen]
    BY <1>1 DEF Answer
  <2>2. screen.what \notin {"content", "fresh"}
    BY DEF Answers
  <2> HIDE DEF screen
  <2> QED
    BY <1>0, <2>1, <2>2 DEF Typed, RecentlySolved
<1>2. ASSUME Respond(b) PROVE RecentlySolved(x)
  <2>1. CASE TooManyFailures(b)
    BY <1>1, <2>1 DEF TooManyFailures, Answers
  <2>2. CASE Image(b)
    BY <1>1, <2>2 DEF Image, Answers
  <2>3. CASE Validate(b)
    BY <1>1, <2>3 DEF Validate, Answers
  <2>4. CASE Page(b)
    <3>1. txn[b].challenge \in Challenge
      BY <1>0, <2>4, Periods DEF Page, Typed, TxnTyped
    <3>2. txn[b].challenge.type \in Answers
      BY <3>1 DEF Challenge, Answers
    <3> QED
      BY <1>1, <2>4, <3>2 DEF Page
  <2> QED
    BY <1>2, <2>1, <2>2, <2>3, <2>4 DEF Respond
<1>3. ASSUME NEW password, RunScript(b, password) PROVE RecentlySolved(x)
  <2>1. shown' = [shown EXCEPT ![b].what = "solved"] /\ shown \in [Browsers -> Screen]
    BY <1>0, <1>3 DEF RunScript, Typed
  <2>2. shown'[x] = shown[x] \/ shown'[x].what = "solved"
    BY <2>1 DEF Screen
  <2> QED
    BY <2>2 DEF RecentlySolved
<1> QED
  BY <1>2, <1>3

LEMMA AdmittingStep ==
    AdmissionInvariant /\ [Next]_vars => [\A b \in Browsers : RecentlySolved(b)]_vars
<1> SUFFICES ASSUME AdmissionInvariant, Next, NEW x \in Browsers PROVE RecentlySolved(x)
  OBVIOUS
<1>1. ASSUME shown' = shown PROVE RecentlySolved(x)
  BY <1>1 DEF RecentlySolved
<1>2. CASE BrowserStep
  <2>1. ASSUME NEW b \in Browsers, NEW ip \in IPs, NEW url, NEW answer, Request(b, ip, url, answer)
        PROVE  RecentlySolved(x)
    BY <2>1, RequestAdmits DEF Request
  <2> QED
    BY <1>2, <2>1, OthersAdmitNobody DEF BrowserStep
<1>3. CASE Reload
  BY <1>1, <1>3 DEF Reload
<1>4. CASE Tick
  BY <1>1, <1>4 DEF Tick
<1> QED
  BY <1>2, <1>3, <1>4 DEF Next

\* Content past a captcha or a computational challenge, and fresh content past
\* a password, goes only to an address that had a solution accepted at most
\* one validity period before (Challenger::on_http_request with check_cookie),
\* for any number of browsers and addresses, all configurations and all times.
THEOREM Admission == Spec => AdmittedRecently
<1>1. Spec => []AdmissionInvariant
  BY AdmissionInit, AdmissionStep, PTL DEF Spec
<1>2. Spec => [][\A b \in Browsers : RecentlySolved(b)]_vars
  BY <1>1, AdmittingStep, PTL DEF Spec
<1> QED
  BY <1>2 DEF AdmittedRecently, RecentlySolved

\* A host that had captchas only so far shows its content only to addresses
\* that gave the text of a captcha while it was valid: the cookie sent with
\* the image (generate_html, the captcha branch) never opens the host.
THEOREM CaptchasSolved == Spec => []CaptchaSolved
<1>1. AdmissionInvariant => CaptchaSolved
  BY DEF AdmissionInvariant, CaptchaInvariant, CaptchaBacked, CaptchaSolved
<1> QED
  BY <1>1, AdmissionInit, AdmissionStep, PTL DEF Spec

-----------------------------------------------------------------------------
(* The types, and how far a count goes *)

Counts == /\ count \in [IPs -> Nat] /\ \A ip \in IPs : BelowThreshold(count[ip])
Bounds == /\ clock \in 0..MaxTime /\ accepted \in [IPs -> SUBSET (0..MaxTime)] /\ bans \subseteq IPs
Waiting == txn \in [Browsers -> Txn]

LEMMA NextCount ==
    ASSUME NEW n \in Nat, BelowThreshold(n), NEW ch \in AllChallenges
    PROVE  /\ CountAfterFailure(n, ch) \in Nat /\ BelowThreshold(CountAfterFailure(n, ch))
           /\ Banned(n, ch) \in BOOLEAN
<1>1. ch.fail_tolerance_threshold \in Nat
  BY Periods DEF Challenge
<1>2. Banned(n, ch) \in BOOLEAN
  BY DEF Banned
<1>3. CASE ch.fail_tolerance_threshold = 0
  BY <1>2, <1>3 DEF CountAfterFailure
<1>4. CASE ch.fail_tolerance_threshold # 0 /\ Banned(n, ch)
  BY <1>2, <1>4 DEF CountAfterFailure, BelowThreshold
<1>5. CASE ch.fail_tolerance_threshold # 0 /\ ~Banned(n, ch)
  <2>1. n + 1 < ch.fail_tolerance_threshold
    BY <1>1, <1>5 DEF Banned
  <2>2. CountAfterFailure(n, ch) = n + 1 /\ n + 1 \in Nat
    BY <1>5 DEF CountAfterFailure
  <2> QED
    BY <1>2, <2>1, <2>2 DEF BelowThreshold
<1> QED
  BY <1>3, <1>4, <1>5

LEMMA Recount ==
    ASSUME Counts, NEW ip \in IPs, NEW m \in Nat, BelowThreshold(m), count' = [count EXCEPT ![ip] = m]
    PROVE  Counts'
<1>1. count' \in [IPs -> Nat]
  BY DEF Counts
<1>2. \A i \in IPs : count'[i] = IF i = ip THEN m ELSE count[i]
  BY DEF Counts
<1>3. \A i \in IPs : BelowThreshold(count'[i])
  BY <1>2 DEF Counts
<1> QED
  BY <1>1, <1>3 DEF Counts, BelowThreshold, AllChallenges

\* What a request does to the count, the bans and the transaction.
Counted(b, ip, url, answer, k, n) ==
    \/ count' = [count EXCEPT ![ip] = n] /\ UNCHANGED <<txn, bans>>
    \/ \E failed \in BOOLEAN :
          LET ch == challenges[k]
          IN  /\ count' = [count EXCEPT ![ip] = IF failed THEN CountAfterFailure(n, ch) ELSE n]
              /\ bans' = IF failed /\ Banned(n, ch) THEN bans \cup {ip} ELSE bans
              /\ txn' = [txn EXCEPT ![b] =
                     [url |-> url, answer |-> answer, ip |-> ip, jar |-> cookie[b], challenge |-> ch,
                      banned_ip |-> failed /\ Banned(n, ch), delete |-> failed /\ Deletes(ch)]]

LEMMA DecideCounts ==
    ASSUME NEW b \in Browsers, NEW ip \in IPs, NEW url, NEW answer, Decide(b, ip, url, answer)
    PROVE  /\ \/ count' = [count EXCEPT ![ip] = 1] /\ UNCHANGED <<txn, bans>>
              \/ \E k \in DOMAIN challenges : \E n \in {1, count[ip]} : Counted(b, ip, url, answer, k, n)
           /\ UNCHANGED <<clock, accepted>>
<1> DEFINE outcome == [i \in DOMAIN challenges |-> Outcome(challenges[i], ip, url, cookie[b])]
           CountAt(k) == IF \E i \in 1..(k - 1) : outcome[i] = "solved" THEN 1 ELSE count[ip]
           Show(m) == count' = [count EXCEPT ![ip] = m] /\ UNCHANGED <<txn, bans>>
           RespondBy(ch, m, banned, failed) ==
               /\ txn' = [txn EXCEPT ![b] =
                      [url |-> url, answer |-> answer, ip |-> ip, jar |-> cookie[b],
                       challenge |-> ch, banned_ip |-> banned, delete |-> failed /\ Deletes(ch)]]
               /\ bans' = IF banned THEN bans \cup {ip} ELSE bans
               /\ count' = [count EXCEPT ![ip] = m]
<1>1. \/ Show(1)
      \/ \E k \in DOMAIN challenges :
            \/ Show(1) \/ Show(CountAt(k)) \/ RespondBy(challenges[k], CountAt(k), FALSE, FALSE)
            \/ RespondBy(challenges[k], CountAfterFailure(CountAt(k), challenges[k]),
                         Banned(CountAt(k), challenges[k]), TRUE)
  BY DEF Decide
<1>2. UNCHANGED <<clock, accepted>>
  BY DEF Decide
<1>3. \A k \in DOMAIN challenges : CountAt(k) \in {1, count[ip]}
  OBVIOUS
<1>4. ASSUME NEW k \in DOMAIN challenges, NEW n \in {1, count[ip]},
             \/ Show(n) \/ RespondBy(challenges[k], n, FALSE, FALSE)
             \/ RespondBy(challenges[k], CountAfterFailure(n, challenges[k]), Banned(n, challenges[k]), TRUE)
      PROVE  Counted(b, ip, url, answer, k, n)
  <2>1. CASE Show(n)
    BY <2>1 DEF Counted
  <2>2. CASE RespondBy(challenges[k], n, FALSE, FALSE)
    BY <2>2 DEF Counted
  <2>3. CASE RespondBy(challenges[k], CountAfterFailure(n, challenges[k]), Banned(n, challenges[k]), TRUE)
    <3>1. (TRUE /\ Banned(n, challenges[k])) = Banned(n, challenges[k])
      BY DEF Banned
    <3> QED
      BY <2>3, <3>1 DEF Counted
  <2> QED
    BY <1>4, <2>1, <2>2, <2>3
<1> HIDE DEF CountAt, Show, RespondBy
<1> QED
  BY <1>1, <1>2, <1>3, <1>4 DEF Show
LEMMA SuccessCount == BelowThreshold(1)
  BY DEF BelowThreshold

LEMMA DeletesOrNot == \A ch : Deletes(ch) \in BOOLEAN
  BY DEF Deletes

LEMMA TxnMember ==
    ASSUME NEW url \in URLs, NEW answer \in Texts \cup {""}, NEW ip \in IPs, NEW jar \in Cookie,
           NEW ch \in Challenge, NEW banned \in BOOLEAN, NEW delete \in BOOLEAN
    PROVE  [url |-> url, answer |-> answer, ip |-> ip, jar |-> jar, challenge |-> ch,
            banned_ip |-> banned, delete |-> delete] \in Txn
  BY DEF Txn

LEMMA DecideTypes ==
    ASSUME Typed, Counts, Bounds, Waiting, NEW b \in Browsers, NEW ip \in IPs, NEW url \in URLs,
           NEW answer \in Texts \cup {""}, Decide(b, ip, url, answer)
    PROVE  Counts' /\ Bounds' /\ Waiting'
<1>1. count[ip] \in Nat /\ BelowThreshold(count[ip]) /\ BelowThreshold(1)
  <2>1. count[ip] \in Nat /\ BelowThreshold(count[ip])
    BY DEF Counts
  <2>2. BelowThreshold(1)
    BY SuccessCount
  <2> QED
    BY <2>1, <2>2
<1>2. CASE count' = [count EXCEPT ![ip] = 1] /\ UNCHANGED <<txn, bans>>
  BY <1>1, <1>2, Recount, DecideCounts DEF Bounds, Waiting
<1>3. ASSUME NEW k \in DOMAIN challenges, NEW n \in {1, count[ip]}, Counted(b, ip, url, answer, k, n)
      PROVE  Counts' /\ Bounds' /\ Waiting'
  <2>1. n \in Nat /\ BelowThreshold(n)
    <3>1. CASE n = 1
      BY <1>1, <3>1
    <3>2. CASE n = count[ip]
      BY <1>1, <3>2
    <3> QED
      BY <3>1, <3>2
  <2>2. PICK ch : ch = challenges[k]
    OBVIOUS
  <2>3. ch \in AllChallenges /\ ch \in Challenge /\ cookie[b] \in Cookie
    BY <2>2, Periods DEF Typed
  <2>4. /\ CountAfterFailure(n, ch) \in Nat /\ BelowThreshold(CountAfterFailure(n, ch))
        /\ Banned(n, ch) \in BOOLEAN /\ Deletes(ch) \in BOOLEAN
    <3>1. Deletes(ch) \in BOOLEAN
      BY DeletesOrNot
    <3> QED
      BY <2>1, <2>3, <3>1, NextCount
  <2>5. CASE count' = [count EXCEPT ![ip] = n] /\ UNCHANGED <<txn, bans>>
    BY <2>1, <2>5, Recount, DecideCounts DEF Bounds, Waiting
  <2>6. ASSUME NEW failed \in BOOLEAN, NEW banned \in BOOLEAN, NEW delete \in BOOLEAN,
               /\ count' = [count EXCEPT ![ip] = IF failed THEN CountAfterFailure(n, ch) ELSE n]
               /\ bans' = IF banned THEN bans \cup {ip} ELSE bans
               /\ txn' = [txn EXCEPT ![b] =
                      [url |-> url, answer |-> answer, ip |-> ip, jar |-> cookie[b], challenge |-> ch,
                       banned_ip |-> banned, delete |-> delete]]
        PROVE  Counts' /\ Bounds' /\ Waiting'
    <3>1. Counts'
      BY <2>1, <2>4, <2>6, Recount
    <3>2. Bounds'
      BY <2>6, DecideCounts DEF Bounds
    <3>3. Waiting'
      BY <2>3, <2>6, TxnMember DEF Waiting
    <3> QED
      BY <3>1, <3>2, <3>3
  <2>7. \A failed \in BOOLEAN : (failed /\ Banned(n, ch)) \in BOOLEAN /\ (failed /\ Deletes(ch)) \in BOOLEAN
    BY <2>4
  <2> QED
    BY <1>3, <2>2, <2>5, <2>6, <2>7 DEF Counted
<1> QED
  BY <1>2, <1>3, DecideCounts

LEMMA RespondTypes ==
    ASSUME Typed, Counts, Bounds, Waiting, NEW b \in Browsers, Respond(b)
    PROVE  Counts' /\ Bounds' /\ Waiting'
<1>1. PICK ip, ch : ip = txn[b].ip /\ ch = txn[b].challenge
  OBVIOUS
<1>2. txn[b] # NoTxn
  BY DEF Respond, TooManyFailures, Image, Validate, Page
<1>3. ip \in IPs /\ ch \in AllChallenges
  BY <1>1, <1>2 DEF Typed, TxnTyped
<1>4. count[ip] \in Nat /\ BelowThreshold(count[ip])
  BY <1>3 DEF Counts
<1>5. PICK m \in {count[ip], CountAfterFailure(count[ip], ch)} :
          count' = [count EXCEPT ![ip] = m] /\ txn' = [txn EXCEPT ![b] = NoTxn] /\ clock' = clock
  BY <1>1 DEF Respond, TooManyFailures, Image, Validate, Page, Answer
<1>6. m \in Nat /\ BelowThreshold(m)
  BY <1>3, <1>4, NextCount
<1>7. Counts'
  BY <1>3, <1>5, <1>6, Recount
<1>8. Waiting'
  BY <1>5 DEF Waiting, Txn
<1>9. bans' \in {bans, bans \cup {ip}}
  BY <1>1 DEF Respond, TooManyFailures, Image, Validate, Page
<1>10. accepted' = accepted \/ accepted' = [accepted EXCEPT ![ip] = @ \cup {clock}]
  BY <1>1 DEF Respond, TooManyFailures, Image, Validate, Page
<1>11. Bounds'
  BY <1>3, <1>5, <1>9, <1>10 DEF Bounds
<1> QED
  BY <1>7, <1>8, <1>11

LEMMA RunScriptTypes ==
    ASSUME Typed, Counts, Bounds, Waiting, NEW b \in Browsers, NEW password, RunScript(b, password)
    PROVE  Counts' /\ Bounds' /\ Waiting'
<1>1. PICK ip : ip = token[b].ip
  OBVIOUS
<1>2. ip \in IPs
  <2>1. token[b] # NoCookie /\ token[b] \in Cookie
    BY DEF RunScript, Typed
  <2>2. token[b] \in FullCookie
    BY <2>1, Members
  <2> QED
    BY <1>1, <2>2 DEF FullCookie
<1>3. /\ UNCHANGED <<clock, count, bans, txn>>
      /\ accepted' = accepted \/ accepted' = [accepted EXCEPT ![ip] = @ \cup {clock}]
  BY <1>1 DEF RunScript, Bounds
<1> QED
  BY <1>2, <1>3 DEF Counts, Bounds, Waiting, BelowThreshold, AllChallenges

LEMMA TypesStep ==
    ASSUME Typed, Counts, Bounds, Waiting, [Next]_vars
    PROVE  Counts' /\ Bounds' /\ Waiting'
<1>1. ASSUME NEW b \in Browsers, NEW ip \in IPs, NEW url \in URLs, NEW answer \in Texts \cup {""},
             Request(b, ip, url, answer)
      PROVE  Counts' /\ Bounds' /\ Waiting'
  BY <1>1, DecideTypes DEF Request
<1>2. CASE BrowserStep
  <2>1. "" \in Texts \cup {""} /\ "validate" \in URLs /\ URLs \ {"validate"} \subseteq URLs
    BY DEF URLs
  <2> QED
    BY <1>1, <1>2, <2>1, RespondTypes, RunScriptTypes DEF BrowserStep
<1>3. CASE Reload
  <2>1. UNCHANGED <<clock, bans, txn, accepted>> /\ count' = [ip \in IPs |-> 0]
    BY <1>3 DEF Reload
  <2> QED
    BY <2>1 DEF Counts, Bounds, Waiting, BelowThreshold
<1>4. CASE Tick
  <2>1. UNCHANGED <<count, bans, txn, accepted>> /\ clock' = clock + 1 /\ clock < MaxTime
    BY <1>4 DEF Tick
  <2>2. clock' \in 0..MaxTime
    <3>1. MaxTime \in Nat /\ clock \in 0..MaxTime
      BY ChallengerAssumption DEF Bounds
    <3> QED
      BY <2>1, <3>1
  <2> QED
    BY <2>1, <2>2 DEF Counts, Bounds, Waiting, BelowThreshold, AllChallenges
<1>5. CASE UNCHANGED vars
  BY <1>5 DEF vars, Counts, Bounds, Waiting, BelowThreshold, AllChallenges
<1> QED
  BY <1>2, <1>3, <1>4, <1>5 DEF Next

\* The types of the host's state; above all, the count of an address stays
\* below the threshold of some challenge, because report_failure bans and
\* drops the record at the threshold, for all configurations that follow one
\* another and all challenges that share the count.
THEOREM TypeCorrect == Spec => []TypeOK
<1>1. Init => Counts /\ Bounds /\ Waiting
  <2> SUFFICES ASSUME Init PROVE Counts /\ Bounds /\ Waiting
    OBVIOUS
  <2>1. Counts
    BY DEF Init, Counts, BelowThreshold
  <2>2. Bounds
    <3>1. MaxTime \in Nat
      BY ChallengerAssumption
    <3>2. clock = 0 /\ accepted = [ip \in IPs |-> {}] /\ bans = {}
      BY DEF Init
    <3> QED
      BY <3>1, <3>2 DEF Bounds
  <2>3. Waiting
    BY DEF Init, Waiting, Txn
  <2> QED
    BY <2>1, <2>2, <2>3
<1>2. AdmissionInvariant /\ Counts /\ Bounds /\ Waiting => TypeOK
  BY DEF AdmissionInvariant, Typed, Counts, Bounds, Waiting, TypeOK
<1>3. AdmissionInvariant /\ Counts /\ Bounds /\ Waiting /\ [Next]_vars => (Counts /\ Bounds /\ Waiting)'
  BY TypesStep DEF AdmissionInvariant
<1> QED
  BY <1>1, <1>2, <1>3, AdmissionInit, AdmissionStep, PTL DEF Spec
=============================================================================
