-------------------------- MODULE Sessions_proofs --------------------------
(***************************************************************************)
(* Proofs about Sessions: one usable token in a family, the lifecycle of a *)
(* family (a refinement), sign-out, replays, and what a password change    *)
(* and a reset link leave behind.                                          *)
(***************************************************************************)
EXTENDS Sessions, TLAPS

\* Tokens that exist, and what may stand for one.
Issued == 1..issued
IssuedOrNil == Issued \cup {Nil}

\* Only issued tokens are revoked, expired, deleted or carried around, and
\* what was deleted had expired.
RowsTyped ==
    /\ issued \in 0..MaxTokens
    /\ family \in [Tokens -> Tokens] /\ \A k \in Issued : family[k] \in Issued
    /\ revoked \subseteq Issued /\ expired \subseteq Issued /\ purged \subseteq expired
    /\ born \in [Tokens -> 0..MaxPassword]

BrowserTyped ==
    /\ cookie \in [Browsers -> IssuedOrNil]
    /\ local \in [Browsers -> TokenOrNil]
    /\ access \in [Tabs -> TokenOrNil]

\* A refresh that has found its row knows its token.
RefreshTyped ==
    /\ refresh \in [Tabs -> Refresh \cup {Nil}]
    /\ \A t \in Tabs : refresh[t] # Nil =>
          /\ refresh[t].token \in IssuedOrNil
          /\ refresh[t].step \in {"rotate", "reuse", "answer"} => refresh[t].token \in Issued

\* A password is updated by changePassword and resetPassword, and by the
\* latter with its link; logout issues no tokens.
OpTyped ==
    /\ op \in [Tabs -> Op \cup {Nil}]
    /\ \A t \in Tabs : op[t] # Nil =>
          /\ op[t].token \in IssuedOrNil
          /\ op[t].step = "update" => op[t].kind \in {"change", "reset"}
          /\ op[t].step = "issue" => op[t].kind # "logout"
          /\ op[t].kind = "reset" /\ op[t].step \in {"guard", "verify", "update"}
                => op[t].key \in Resets

RestTyped ==
    /\ badAccess \in SUBSET Tokens
    /\ password \in 0..MaxPassword
    /\ resetKey \in [Resets -> {"unsent", "stored", "spent"}]
    /\ sent \in 0..MaxSent
    /\ faults \in 0..MaxFaults
    /\ history \in History

SessionsTyped == RowsTyped /\ BrowserTyped /\ RefreshTyped /\ OpTyped /\ RestTyped

\* Until its family is noted, a family has one token that is not revoked,
\* whether it has expired or not.
OneUnrevoked ==
    \A j, k \in Issued :
        j # k /\ family[j] = family[k] /\ j \notin revoked /\ k \notin revoked
            => family[j] \in history.raced

\* Until its family is noted, a refresh that is about to rotate a token is the
\* only one of the family and rotates the token that is not revoked.
RotatesUnrevoked ==
    \A t \in Tabs : RefreshAt(t, "rotate") =>
        family[refresh[t].token] \in history.raced \/ refresh[t].token \notin revoked

RefreshesAlone ==
    \A t, u \in Tabs : \A f \in Tokens :
        t # u /\ Refreshing(f, t) /\ Refreshing(f, u) => f \in history.raced

\* What logout has revoked stays dead.
SignedOutDead ==
    \A t \in Tabs :
        /\ op[t] # Nil /\ op[t].kind = "logout" /\ op[t].step \in {"blacklist", "answer"}
        /\ op[t].token # Nil
        => family[op[t].token] \in history.raced \/ ~GoesOn(family[op[t].token])

FamiliesInv == RotatesUnrevoked /\ RefreshesAlone /\ OneUnrevoked

\* GETDEL: a link that was taken is gone, and whoever took it is alone.
Resetting(t, r) == op[t] # Nil /\ op[t].kind = "reset" /\ op[t].step = "update" /\ op[t].key = r

ResetsSpent ==
    /\ \A r \in Resets : history.resets[r] \in {0, 1}
    /\ \A r \in Resets : history.resets[r] = 1 => resetKey[r] = "spent"
    /\ \A r \in Resets : \A t \in Tabs :
          Resetting(t, r) => resetKey[r] = "spent" /\ history.resets[r] = 0
    /\ \A r \in Resets : \A t, u \in Tabs : Resetting(t, r) /\ Resetting(u, r) => t = u

-----------------------------------------------------------------------------
(* Facts about the operators of the model *)

LEMMA IssuedTokens ==
  ASSUME RowsTyped
  PROVE  /\ issued \in Nat /\ Issued \subseteq Tokens /\ IssuedOrNil \subseteq TokenOrNil
         /\ Nil \notin Issued
<1>1. issued \in Nat /\ issued <= MaxTokens
  BY BoundsAreNat DEF RowsTyped
<1>2. Issued \subseteq Tokens
  BY <1>1, BoundsAreNat DEF Issued, Tokens
<1>. QED
  BY <1>1, <1>2, NilIsNoToken DEF IssuedOrNil, TokenOrNil

\* The invariant on types is stronger than the model's.
LEMMA TypesImplied == SessionsTyped => TypeOK
<1>. SUFFICES ASSUME SessionsTyped PROVE TypeOK
  OBVIOUS
<1>1. Issued \subseteq Tokens /\ IssuedOrNil \subseteq TokenOrNil
  BY IssuedTokens DEF SessionsTyped
<1>2. /\ issued \in 0..MaxTokens /\ family \in [Tokens -> Tokens]
      /\ revoked \in SUBSET Tokens /\ expired \in SUBSET Tokens /\ purged \in SUBSET Tokens
      /\ born \in [Tokens -> 0..MaxPassword]
  BY <1>1 DEF SessionsTyped, RowsTyped
<1>3. /\ cookie \in [Browsers -> TokenOrNil] /\ local \in [Browsers -> TokenOrNil]
      /\ access \in [Tabs -> TokenOrNil]
  BY <1>1 DEF SessionsTyped, BrowserTyped
<1>. QED
  BY <1>2, <1>3 DEF SessionsTyped, RefreshTyped, OpTyped, RestTyped, TypeOK

LEMMA RefreshParts ==
  ASSUME RefreshTyped, NEW t \in Tabs, refresh[t] # Nil
  PROVE  /\ refresh[t] \in Refresh /\ refresh[t].by \in Triggers
         /\ refresh[t].step \in RefreshSteps /\ refresh[t].token \in IssuedOrNil
BY DEF RefreshTyped, Refresh

LEMMA OpParts ==
  ASSUME OpTyped, NEW t \in Tabs, op[t] # Nil
  PROVE  /\ op[t] \in Op /\ op[t].kind \in OpKinds /\ op[t].step \in OpSteps
         /\ op[t].token \in IssuedOrNil /\ op[t].jti \in TokenOrNil
         /\ op[t].pw \in 0..MaxPassword /\ op[t].key \in Resets \cup {Nil}
BY DEF OpTyped, Op

LEMMA HistoryParts ==
  ASSUME history \in History
  PROVE  /\ history.raced \subseteq Tokens /\ history.resets \in [Resets -> Nat]
         /\ history.torn \in BOOLEAN
BY DEF History

\* A reset is counted.
LEMMA OneMore ==
  ASSUME NEW f \in [Resets -> Nat], NEW r
  PROVE  [f EXCEPT ![r] = @ + 1] \in [Resets -> Nat]
<1>1. \A x \in Resets : f[x] \in Nat /\ f[x] + 1 \in Nat
  OBVIOUS
<1>. QED
  BY <1>1

\* Record adds to the families in use by two requests.
LEMMA RecordFacts ==
  ASSUME history \in History, NEW raced \in SUBSET Tokens, NEW resets \in [Resets -> Nat],
         NEW torn \in BOOLEAN, Record(raced, resets, torn)
  PROVE  /\ history' \in History
         /\ history'.raced = history.raced \cup raced
         /\ history'.resets = resets /\ history'.torn = torn
BY DEF Record, History

LEMMA RecordRacedFacts ==
  ASSUME history \in History, NEW raced \in SUBSET Tokens, RecordRaced(raced)
  PROVE  /\ history' \in History
         /\ history'.raced = history.raced \cup raced
         /\ history'.resets = history.resets /\ history'.torn = history.torn
BY HistoryParts, RecordFacts DEF RecordRaced

\* Tokens are never taken back: what was issued stays issued.
Grown == issued' \in Nat /\ issued <= issued'

LEMMA GrownIssued ==
  ASSUME RowsTyped, Grown
  PROVE  Issued \subseteq Issued' /\ IssuedOrNil \subseteq IssuedOrNil'
BY IssuedTokens DEF Grown, Issued, IssuedOrNil

\* The parts of the state an action leaves alone keep their type.
LEMMA Frames ==
  ASSUME SessionsTyped, Grown
  PROVE  /\ UNCHANGED rows => RowsTyped'
         /\ UNCHANGED browser => BrowserTyped'
         /\ UNCHANGED refresh => RefreshTyped'
         /\ UNCHANGED op => OpTyped'
<1>1. Issued \subseteq Issued' /\ IssuedOrNil \subseteq IssuedOrNil'
  BY GrownIssued DEF SessionsTyped
<1>2. UNCHANGED rows => RowsTyped'
  BY DEF SessionsTyped, RowsTyped, rows, Issued
<1>3. UNCHANGED browser => BrowserTyped'
  BY <1>1 DEF SessionsTyped, BrowserTyped, browser
<1>4. UNCHANGED refresh => RefreshTyped'
  BY <1>1 DEF SessionsTyped, RefreshTyped
<1>5. UNCHANGED op => OpTyped'
  BY <1>1 DEF SessionsTyped, OpTyped
<1>. QED
  BY <1>2, <1>3, <1>4, <1>5

\* PutRefresh replaces the refresh of one tab.
LEMMA PutRefreshFacts ==
  ASSUME SessionsTyped, Grown, NEW t \in Tabs, NEW by \in Triggers, NEW step \in RefreshSteps,
         NEW token \in IssuedOrNil', Issued' \subseteq Tokens,
         step \in {"rotate", "reuse", "answer"} => token # Nil,
         PutRefresh(t, by, step, token)
  PROVE  /\ RefreshTyped'
         /\ refresh'[t] = [by |-> by, step |-> step, token |-> token]
         /\ refresh'[t].step = step /\ refresh'[t].token = token
         /\ \A u \in Tabs \ {t} : refresh'[u] = refresh[u]
<1>. DEFINE q == [by |-> by, step |-> step, token |-> token]
<1>1. Issued \subseteq Issued' /\ IssuedOrNil \subseteq IssuedOrNil'
  BY GrownIssued DEF SessionsTyped
<1>2. q \in Refresh /\ q.step = step /\ q.token = token
  BY DEF Refresh, IssuedOrNil, TokenOrNil
<1>3. token \in Issued' \/ token = Nil
  BY DEF IssuedOrNil
<1>4. refresh' = [refresh EXCEPT ![t] = q] /\ refresh \in [Tabs -> Refresh \cup {Nil}]
  BY DEF PutRefresh, SessionsTyped, RefreshTyped
<1>. HIDE DEF q
<1>5. /\ refresh'[t] = q /\ \A u \in Tabs \ {t} : refresh'[u] = refresh[u]
      /\ refresh' \in [Tabs -> Refresh \cup {Nil}]
  BY <1>2, <1>4
<1>6. RefreshTyped'
  BY <1>1, <1>2, <1>3, <1>5 DEF SessionsTyped, RefreshTyped
<1>. QED
  BY <1>2, <1>5, <1>6 DEF q

\* PutOp replaces the request of one tab.
LEMMA PutOpFacts ==
  ASSUME SessionsTyped, Grown, NEW t \in Tabs, NEW kind \in OpKinds, NEW step \in OpSteps,
         NEW token \in IssuedOrNil', Issued' \subseteq Tokens, NEW jti \in TokenOrNil,
         NEW pw \in 0..MaxPassword, NEW key \in Resets \cup {Nil},
         step = "update" => kind \in {"change", "reset"},
         step = "issue" => kind # "logout",
         kind = "reset" /\ step \in {"guard", "verify", "update"} => key \in Resets,
         PutOp(t, kind, step, token, jti, pw, key)
  PROVE  /\ OpTyped'
         /\ op'[t].kind = kind /\ op'[t].step = step /\ op'[t].token = token
         /\ op'[t].pw = pw /\ op'[t].key = key
         /\ \A u \in Tabs \ {t} : op'[u] = op[u]
<1>. DEFINE q == [kind |-> kind, step |-> step, token |-> token,
                  jti |-> jti, pw |-> pw, key |-> key]
<1>1. Issued \subseteq Issued' /\ IssuedOrNil \subseteq IssuedOrNil'
  BY GrownIssued DEF SessionsTyped
<1>2. /\ q \in Op /\ q.kind = kind /\ q.step = step /\ q.token = token
      /\ q.pw = pw /\ q.key = key
  BY DEF Op, IssuedOrNil, TokenOrNil
<1>3. op' = [op EXCEPT ![t] = q] /\ op \in [Tabs -> Op \cup {Nil}]
  BY DEF PutOp, SessionsTyped, OpTyped
<1>. HIDE DEF q
<1>4. /\ op'[t] = q /\ \A u \in Tabs \ {t} : op'[u] = op[u]
      /\ op' \in [Tabs -> Op \cup {Nil}]
  BY <1>2, <1>3
<1>5. OpTyped'
  BY <1>1, <1>2, <1>4 DEF SessionsTyped, OpTyped
<1>. QED
  BY <1>2, <1>4, <1>5

\* NewRow adds a row, of an old family or of its own.
LEMMA NewRowFacts ==
  ASSUME RowsTyped, NEW f \in 1..(issued + 1), NEW pw \in 0..MaxPassword, NewRow(f, pw),
         revoked' \subseteq revoked \cup Issued
  PROVE  /\ RowsTyped' /\ Grown /\ Issued' \subseteq Tokens
         /\ issued' = issued + 1 /\ issued + 1 \in Issued'
         /\ Issued' = Issued \cup {issued + 1} /\ issued + 1 \notin Issued
         /\ family'[issued + 1] = f /\ \A k \in Issued : family'[k] = family[k]
         /\ born'[issued + 1] = pw /\ \A k \in Issued : born'[k] = born[k]
         /\ expired' = expired /\ purged' = purged
<1>1. /\ issued \in Nat /\ issued < MaxTokens /\ MaxTokens \in Nat /\ issued' = issued + 1
      /\ expired' = expired /\ purged' = purged
  BY IssuedTokens, BoundsAreNat DEF NewRow
<1>2. issued + 1 \in Tokens /\ f \in Tokens /\ Issued \subseteq Tokens
  BY <1>1, IssuedTokens DEF Tokens
<1>3. /\ Issued' = Issued \cup {issued + 1} /\ issued + 1 \notin Issued
  BY <1>1 DEF Issued
<1>4. /\ family' \in [Tokens -> Tokens] /\ family'[issued + 1] = f
      /\ \A k \in Issued : family'[k] = family[k]
  BY <1>2, <1>3 DEF NewRow, RowsTyped
<1>5. /\ born' \in [Tokens -> 0..MaxPassword] /\ born'[issued + 1] = pw
      /\ \A k \in Issued : born'[k] = born[k]
  BY <1>2, <1>3 DEF NewRow, RowsTyped
<1>6. f \in Issued'
  BY <1>1 DEF Issued
<1>7. issued' \in 0..MaxTokens
  BY <1>1
<1>8. \A k \in Issued' : family'[k] \in Issued'
  BY <1>3, <1>4, <1>6 DEF RowsTyped
<1>9. RowsTyped'
  BY <1>1, <1>3, <1>4, <1>5, <1>7, <1>8 DEF RowsTyped
<1>. QED
  BY <1>1, <1>2, <1>3, <1>4, <1>5, <1>9 DEF Grown

\* RevokeFamilies revokes and changes nothing else.
LEMMA RevokeFamiliesFacts ==
  ASSUME RowsTyped, NEW F, RevokeFamilies(F)
  PROVE  /\ RowsTyped' /\ Grown /\ Issued' = Issued /\ revoked \subseteq revoked'
         /\ UNCHANGED <<issued, family, expired, purged, born>>
         /\ \A k \in Issued : family[k] \in F /\ k \notin purged => k \in revoked'
<1>1. /\ UNCHANGED <<issued, family, expired, purged, born>>
      /\ revoked' = revoked \cup {k \in Issued \ purged : family[k] \in F}
  BY DEF RevokeFamilies, Issued
<1>2. Issued' = Issued /\ Grown
  BY <1>1, IssuedTokens DEF Issued, Grown
<1>3. RowsTyped'
  BY <1>1, <1>2 DEF RowsTyped
<1>. QED
  BY <1>1, <1>2, <1>3

\* SetToken and SetCookie write what the answer brings.
LEMMA SetTokenFacts ==
  ASSUME BrowserTyped, NEW t \in Tabs, NEW k \in TokenOrNil, SetToken(t, k)
  PROVE  /\ access' \in [Tabs -> TokenOrNil] /\ local' \in [Browsers -> TokenOrNil]
BY BrowserOfType DEF BrowserTyped, SetToken

LEMMA SetCookieFacts ==
  ASSUME SessionsTyped, Grown, NEW t \in Tabs, NEW k \in IssuedOrNil', SetCookie(t, k)
  PROVE  cookie' \in [Browsers -> IssuedOrNil']
<1>1. IssuedOrNil \subseteq IssuedOrNil'
  BY GrownIssued DEF SessionsTyped
<1>. QED
  BY <1>1, BrowserOfType DEF SessionsTyped, BrowserTyped, SetCookie

\* A step that writes no row.
LEMMA SameRows ==
  ASSUME SessionsTyped, UNCHANGED rows
  PROVE  /\ Grown /\ RowsTyped' /\ Issued' = Issued /\ IssuedOrNil' = IssuedOrNil
         /\ Issued' \subseteq Tokens
<1>1. issued' = issued /\ issued \in Nat /\ Issued \subseteq Tokens
  BY IssuedTokens DEF SessionsTyped, rows
<1>2. Grown
  BY <1>1 DEF Grown
<1>. QED
  BY <1>1, <1>2, Frames DEF Issued, IssuedOrNil

-----------------------------------------------------------------------------
(* Types *)

\* The rest of the state when only sent or faults count on.
LEMMA RestStays ==
  ASSUME RestTyped, UNCHANGED <<badAccess, password, resetKey>>, history' \in History,
         sent' \in 0..MaxSent, faults' \in 0..MaxFaults
  PROVE  RestTyped'
BY DEF RestTyped

\* The step of a refresh leaves the state well typed.
LEMMA RefreshTypes ==
  ASSUME SessionsTyped, NEW t \in Tabs, RefreshNext(t)
  PROVE  SessionsTyped'
<1>. USE DEF SessionsTyped
<1>1. Nil \in IssuedOrNil /\ cookie[BrowserOf[t]] \in IssuedOrNil
  BY BrowserOfType DEF IssuedOrNil, BrowserTyped
<1>2. ASSUME NEW by \in Triggers, StartRefresh(t, by) PROVE SessionsTyped'
  <2>1. UNCHANGED <<rows, browser, op, badAccess, password, resetKey, faults, history>>
    BY <1>2 DEF StartRefresh
  <2>2. PutRefresh(t, by, "sent", cookie[BrowserOf[t]])
    BY <1>2 DEF StartRefresh
  <2>3. RefreshTyped'
    BY <1>1, <2>1, <2>2, SameRows, PutRefreshFacts DEF RefreshSteps
  <2>4. sent' \in 0..MaxSent
    BY <1>2, BoundsAreNat DEF StartRefresh, RestTyped
  <2>5. RestTyped'
    BY <2>1, <2>4, RestStays DEF RestTyped
  <2>. QED
    BY <2>1, <2>3, <2>5, SameRows, Frames
<1>3. ASSUME Reload(t) PROVE SessionsTyped'
  <2>1. /\ UNCHANGED <<rows, cookie, local, refresh, op>>
        /\ UNCHANGED <<badAccess, password, resetKey, sent, faults, history>>
    BY <1>3 DEF Reload
  <2>2. access' \in [Tabs -> TokenOrNil]
    BY <1>3, BrowserOfType DEF Reload, BrowserTyped
  <2>3. BrowserTyped'
    BY <2>1, <2>2, SameRows DEF BrowserTyped
  <2>. QED
    BY <2>1, <2>3, SameRows, Frames DEF RestTyped
<1>4. ASSUME ReadRow(t) PROVE SessionsTyped'
  <2>. DEFINE k == refresh[t].token
  <2>1. UNCHANGED <<rows, badAccess, password, resetKey, browser, op, sent, faults>>
    BY <1>4 DEF ReadRow
  <2>2. refresh[t] # Nil /\ refresh[t].by \in Triggers /\ k \in IssuedOrNil
    BY <1>4, RefreshParts DEF ReadRow, RefreshAt
  <2>3. PICK step \in {"refused", "reuse", "rotate"}, token \in IssuedOrNil :
           /\ PutRefresh(t, refresh[t].by, step, token)
           /\ step # "refused" => token # Nil
    <3>1. CASE RefreshGoto(t, "refused", Nil)
      BY <1>1, <3>1 DEF RefreshGoto
    <3>2. CASE k \in revoked \ (purged \cup expired) /\ RefreshGoto(t, "reuse", k)
      <4>1. k # Nil
        BY <3>2, IssuedTokens DEF RowsTyped
      <4>. QED
        BY <2>2, <3>2, <4>1 DEF RefreshGoto
    <3>3. CASE k # Nil /\ RefreshGoto(t, "rotate", k)
      BY <2>2, <3>3 DEF RefreshGoto
    <3>. QED
      BY <1>4, <3>1, <3>2, <3>3 DEF ReadRow
  <2>4. RefreshTyped'
    BY <2>1, <2>2, <2>3, SameRows, PutRefreshFacts DEF RefreshSteps
  <2>5. history' \in History
    <3>1. RecordRaced(RefreshedElsewhere(FamilyOf(k), t))
      BY <1>4 DEF ReadRow
    <3>2. RefreshedElsewhere(FamilyOf(k), t) \subseteq Tokens
      BY <2>2, IssuedTokens DEF RefreshedElsewhere, FamilyOf, IssuedOrNil, RowsTyped
    <3>. QED
      BY <3>1, <3>2, RecordRacedFacts DEF RestTyped
  <2>. QED
    BY <2>1, <2>4, <2>5, SameRows, Frames, RestStays DEF RestTyped
<1>5. ASSUME RevokeFamily(t) PROVE SessionsTyped'
  <2>. DEFINE f == family[refresh[t].token]
  <2>1. UNCHANGED <<badAccess, password, resetKey, browser, op, sent, faults>>
    BY <1>5 DEF RevokeFamily
  <2>2. refresh[t] # Nil /\ refresh[t].by \in Triggers /\ refresh[t].token \in Issued
    BY <1>5, RefreshParts DEF RevokeFamily, RefreshAt, RefreshTyped
  <2>3. f \in Tokens
    BY <2>2, IssuedTokens DEF RowsTyped
  <2>4. RowsTyped' /\ Grown /\ Issued' = Issued
    BY <1>5, RevokeFamiliesFacts DEF RevokeFamily
  <2>5. PutRefresh(t, refresh[t].by, "refused", Nil)
    BY <1>5 DEF RevokeFamily, RefreshGoto
  <2>6. RefreshTyped'
    BY <2>2, <2>4, <2>5, IssuedTokens, PutRefreshFacts DEF RefreshSteps, IssuedOrNil
  <2>7. history' \in History
    <3>1. RecordRaced(RefreshedElsewhere({f}, t)) /\ RefreshedElsewhere({f}, t) \subseteq Tokens
      BY <1>5, <2>3 DEF RevokeFamily, RefreshedElsewhere
    <3>. QED
      BY <3>1, RecordRacedFacts DEF RestTyped
  <2>. QED
    BY <2>1, <2>4, <2>6, <2>7, Frames, RestStays DEF RestTyped
<1>6. ASSUME Rotate(t) PROVE SessionsTyped'
  <2>. DEFINE k == refresh[t].token
  <2>1. UNCHANGED <<badAccess, password, resetKey, browser, op, sent, faults, history>>
    BY <1>6 DEF Rotate
  <2>2. refresh[t] # Nil /\ refresh[t].by \in Triggers /\ k \in Issued
    BY <1>6, RefreshParts DEF Rotate, RefreshAt, RefreshTyped
  <2>3. NewRow(family[k], 0) /\ revoked' = revoked \cup {k}
    BY <1>6 DEF Rotate, RotateRow
  <2>4. family[k] \in 1..(issued + 1)
    BY <2>2, IssuedTokens DEF RowsTyped, Issued
  <2>5. RowsTyped' /\ Grown /\ issued + 1 \in Issued' /\ Issued' \subseteq Tokens
    BY <2>2, <2>3, <2>4, BoundsAreNat, NewRowFacts
  <2>6. PutRefresh(t, refresh[t].by, "answer", issued + 1)
    BY <1>6 DEF Rotate, RefreshGoto
  <2>7. issued + 1 # Nil
    BY <2>5, NilIsNoToken
  <2>8. RefreshTyped'
    BY <2>2, <2>5, <2>6, <2>7, PutRefreshFacts DEF RefreshSteps, IssuedOrNil
  <2>. QED
    BY <2>1, <2>5, <2>8, Frames DEF RestTyped
<1>7. ASSUME RefreshAnswered(t) \/ RefreshRefused(t) \/ RefreshLost(t) PROVE SessionsTyped'
  <2>1. UNCHANGED <<rows, badAccess, password, resetKey, op, sent, history>> /\ Settle(t)
    BY <1>7 DEF RefreshAnswered, RefreshRefused, RefreshLost
  <2>2. RefreshTyped'
    BY <1>1, <2>1, SameRows, PutRefreshFacts DEF Settle, Triggers, RefreshSteps
  <2>3. BrowserTyped'
    <3>1. CASE RefreshAnswered(t)
      <4>1. refresh[t].token \in IssuedOrNil /\ refresh[t].token \in TokenOrNil
        BY <3>1, RefreshParts, IssuedTokens DEF RefreshAnswered, RefreshAt
      <4>2. SetCookie(t, refresh[t].token) /\ SetToken(t, refresh[t].token)
        BY <3>1 DEF RefreshAnswered
      <4>. QED
        BY <2>1, <4>1, <4>2, SameRows, SetCookieFacts, SetTokenFacts DEF BrowserTyped
    <3>2. CASE RefreshRefused(t) \/ RefreshLost(t)
      <4>1. cookie' = cookie /\ (UNCHANGED <<access, local>> \/ SetToken(t, Nil))
        BY <3>2 DEF RefreshRefused, RefreshLost, ClearAuth
      <4>. QED
        BY <2>1, <4>1, SameRows, SetTokenFacts DEF BrowserTyped, TokenOrNil
    <3>. QED
      BY <1>7, <3>1, <3>2
  <2>4. faults' \in 0..MaxFaults
    BY <1>7, BoundsAreNat DEF RefreshAnswered, RefreshRefused, RefreshLost, RestTyped
  <2>. QED
    BY <2>1, <2>2, <2>3, <2>4, SameRows, Frames, RestStays DEF RestTyped
<1>8. ASSUME DebounceOver(t) PROVE SessionsTyped'
  <2>1. UNCHANGED <<rows, badAccess, password, resetKey, browser, op, sent, faults, history>>
    BY <1>8 DEF DebounceOver
  <2>2. RefreshTyped'
    BY <1>8, <2>1, SameRows DEF DebounceOver, RefreshTyped
  <2>. QED
    BY <2>1, <2>2, SameRows, Frames DEF RestTyped
<1>. QED
  BY <1>2, <1>3, <1>4, <1>5, <1>6, <1>7, <1>8
  DEF RefreshNext, FetchUnauthorized, SocketAuthError, Bootstrap, Triggers

\* OpGoto keeps the kind and the link of a request.
LEMMA OpGotoFacts ==
  ASSUME SessionsTyped, Grown, Issued' \subseteq Tokens, NEW t \in Tabs, op[t] # Nil,
         NEW step \in OpSteps, NEW token \in IssuedOrNil', NEW pw \in 0..MaxPassword,
         step = "update" => op[t].kind \in {"change", "reset"},
         step = "issue" => op[t].kind # "logout",
         op[t].kind = "reset" /\ step \in {"guard", "verify", "update"}
            => op[t].step \in {"guard", "verify"},
         OpGoto(t, step, token, pw)
  PROVE  /\ OpTyped'
         /\ op'[t].kind = op[t].kind /\ op'[t].step = step /\ op'[t].token = token
         /\ op'[t].pw = pw /\ op'[t].key = op[t].key
         /\ \A u \in Tabs \ {t} : op'[u] = op[u]
<1>1. /\ op[t].kind \in OpKinds /\ op[t].jti \in TokenOrNil /\ op[t].key \in Resets \cup {Nil}
      /\ op[t].kind = "reset" /\ step \in {"guard", "verify", "update"} => op[t].key \in Resets
  BY OpParts DEF SessionsTyped, OpTyped
<1>2. PutOp(t, op[t].kind, step, token, op[t].jti, pw, op[t].key)
  BY DEF OpGoto
<1>. QED
  BY <1>1, <1>2, PutOpFacts

\* A refused request, and one that has ended.
LEMMA OpRefuseFacts ==
  ASSUME SessionsTyped, Grown, Issued' \subseteq Tokens, NEW t \in Tabs, op[t] # Nil,
         OpRefuse(t)
  PROVE  /\ OpTyped'
         /\ op'[t].kind = op[t].kind /\ op'[t].step = "refused"
         /\ \A u \in Tabs \ {t} : op'[u] = op[u]
<1>1. op[t].kind \in OpKinds /\ Nil \in TokenOrNil /\ Nil \in IssuedOrNil'
  BY OpParts DEF SessionsTyped, TokenOrNil, IssuedOrNil
<1>2. PutOp(t, op[t].kind, "refused", Nil, Nil, 0, Nil) /\ "refused" \in OpSteps
  BY DEF OpRefuse, OpSteps
<1>. QED
  BY <1>1, <1>2, BoundsAreNat, PutOpFacts

LEMMA OpEndFacts ==
  ASSUME SessionsTyped, Grown, NEW t \in Tabs, OpEnd(t)
  PROVE  OpTyped' /\ op'[t] = Nil /\ \A u \in Tabs \ {t} : op'[u] = op[u]
<1>1. IssuedOrNil \subseteq IssuedOrNil'
  BY GrownIssued DEF SessionsTyped
<1>. QED
  BY <1>1 DEF SessionsTyped, OpTyped, OpEnd

\* The state but op.
notOp == <<rows, badAccess, password, resetKey, browser, refresh, sent, faults, history>>

LEMMA OnlyOp ==
  ASSUME SessionsTyped, UNCHANGED notOp, OpTyped'
  PROVE  SessionsTyped'
<1>1. UNCHANGED rows /\ UNCHANGED browser /\ UNCHANGED refresh
  BY DEF notOp
<1>2. RestTyped'
  BY DEF SessionsTyped, RestTyped, notOp
<1>. QED
  BY <1>1, <1>2, SameRows, Frames DEF SessionsTyped

\* A request that is sent.
LEMMA RequestTypes ==
  ASSUME SessionsTyped, NEW t \in Tabs, Requests(t)
  PROVE  SessionsTyped'
<1>. USE DEF SessionsTyped
<1>1. ASSUME NEW kind \in OpKinds, NEW key \in Resets \cup {Nil},
             kind = "reset" => key \in Resets, Send(t, kind, key)
      PROVE  SessionsTyped'
  <2>1. /\ UNCHANGED <<rows, browser, refresh>>
        /\ UNCHANGED <<badAccess, password, resetKey, faults, history>>
        /\ PutOp(t, kind, "guard", cookie[BrowserOf[t]], access[t], 0, key)
    BY <1>1 DEF Send
  <2>2. cookie[BrowserOf[t]] \in IssuedOrNil /\ access[t] \in TokenOrNil /\ "guard" \in OpSteps
    BY BrowserOfType DEF BrowserTyped, OpSteps
  <2>3. OpTyped'
    BY <1>1, <2>1, <2>2, BoundsAreNat, SameRows, PutOpFacts
  <2>4. sent' \in 0..MaxSent
    BY <1>1, BoundsAreNat DEF Send, RestTyped
  <2>. QED
    BY <2>1, <2>3, <2>4, SameRows, Frames, RestStays DEF RestTyped
<1>2. ASSUME NEW r \in Resets, ForgotPassword(t, r) PROVE SessionsTyped'
  <2>1. UNCHANGED <<rows, badAccess, password, browser, refresh, op, sent, faults, history>>
    BY <1>2 DEF ForgotPassword
  <2>2. RestTyped'
    BY <1>2, <2>1 DEF ForgotPassword, RestTyped
  <2>. QED
    BY <2>1, <2>2, SameRows, Frames
<1>. QED
  BY <1>1, <1>2 DEF Requests, SendGuest, SendSignedIn, OpKinds

\* The steps of a request that only move it on.
LEMMA OpOnlyTypes ==
  ASSUME SessionsTyped, NEW t \in Tabs,
         \/ GuardRefuses(t) \/ LoginRoute(t) \/ ResetRoute(t) \/ ChangeRoute(t)
         \/ LogoutAllRoute(t) \/ LoginVerify(t) \/ ChangeVerify(t)
         \/ LoginClearsStale(t) \/ OpRefused(t)
  PROVE  SessionsTyped' /\ UNCHANGED notOp
<1>. USE DEF SessionsTyped, OpAt
<1>1. UNCHANGED notOp /\ op[t] # Nil
  BY DEF GuardRefuses, LoginRoute, ResetRoute, ChangeRoute, LogoutAllRoute, LoginVerify,
         ChangeVerify, LoginClearsStale, OpRefused, Step, notOp
<1>2. Grown /\ Issued' \subseteq Tokens /\ IssuedOrNil' = IssuedOrNil /\ Nil \in IssuedOrNil
  BY <1>1, SameRows DEF notOp, IssuedOrNil
<1>3. /\ {"verify", "revoke", "issue", "update", "guard"} \subseteq OpSteps
      /\ 0 \in 0..MaxPassword /\ password \in 0..MaxPassword
  BY BoundsAreNat DEF OpSteps, RestTyped
<1>4. CASE GuardRefuses(t)
  BY <1>1, <1>2, <1>4, OpRefuseFacts, OnlyOp DEF GuardRefuses
<1>5. CASE LoginRoute(t) \/ ResetRoute(t) \/ ChangeRoute(t)
  <2>1. OpGoto(t, "verify", Nil, 0) /\ op[t].step = "guard"
    BY <1>5 DEF LoginRoute, ResetRoute, ChangeRoute, Step
  <2>. QED
    BY <1>1, <1>2, <1>3, <2>1, OpGotoFacts, OnlyOp
<1>6. CASE LogoutAllRoute(t)
  <2>1. OpGoto(t, "revoke", Nil, 0)
    BY <1>6 DEF LogoutAllRoute, Step
  <2>. QED
    BY <1>1, <1>2, <1>3, <2>1, OpGotoFacts, OnlyOp
<1>7. CASE LoginVerify(t)
  <2>1. OpGoto(t, "issue", Nil, password) /\ op[t].kind = "login"
    BY <1>7 DEF LoginVerify
  <2>. QED
    BY <1>1, <1>2, <1>3, <2>1, OpGotoFacts, OnlyOp
<1>8. CASE ChangeVerify(t)
  <2>1. OpGoto(t, "update", Nil, 0) /\ op[t].kind = "change"
    BY <1>8 DEF ChangeVerify
  <2>. QED
    BY <1>1, <1>2, <1>3, <2>1, OpGotoFacts, OnlyOp
<1>9. CASE LoginClearsStale(t)
  <2>1. PutOp(t, "clearStale", "guard", cookie[BrowserOf[t]], Nil, 0, Nil)
    BY <1>9 DEF LoginClearsStale
  <2>2. cookie[BrowserOf[t]] \in IssuedOrNil /\ Nil \in TokenOrNil /\ "clearStale" \in OpKinds
    BY BrowserOfType DEF BrowserTyped, OpKinds, TokenOrNil
  <2>. QED
    BY <1>1, <1>2, <1>3, <2>1, <2>2, PutOpFacts, OnlyOp
<1>10. CASE OpRefused(t)
  BY <1>1, <1>2, <1>10, OpEndFacts, OnlyOp DEF OpRefused
<1>. QED
  BY <1>1, <1>4, <1>5, <1>6, <1>7, <1>8, <1>9, <1>10

\* The steps of a request that write: to Redis, to the users row, to the
\* refresh_tokens rows, and to the browser.
LEMMA WriteTypes ==
  ASSUME SessionsTyped, NEW t \in Tabs,
         \/ TakeResetKey(t) \/ UpdatePassword(t) \/ RevokeAll(t) \/ RevokeOne(t)
         \/ Blacklist(t) \/ IssueTokenPair(t) \/ ServerFails(t)
  PROVE  SessionsTyped'
<1>. USE DEF SessionsTyped, OpAt
<1>1. /\ op[t] # Nil /\ op[t].kind \in OpKinds /\ op[t].token \in IssuedOrNil
      /\ op[t].jti \in TokenOrNil /\ op[t].pw \in 0..MaxPassword
      /\ op[t].key \in Resets \cup {Nil}
  BY OpParts DEF TakeResetKey, UpdatePassword, RevokeAll, RevokeOne, Blacklist,
                 IssueTokenPair, ServerFails
<1>2. /\ {"update", "revoke", "issue", "blacklist", "answer"} \subseteq OpSteps
      /\ 0 \in 0..MaxPassword /\ Nil \in TokenOrNil /\ Nil \in IssuedOrNil'
  BY BoundsAreNat DEF OpSteps, TokenOrNil, IssuedOrNil
<1>3. CASE TakeResetKey(t)
  <2>1. UNCHANGED <<rows, badAccess, password, browser, refresh, sent, faults, history>>
    BY <1>3 DEF TakeResetKey
  <2>2. resetKey' \in [Resets -> {"unsent", "stored", "spent"}]
    BY <1>3 DEF TakeResetKey, RestTyped
  <2>3. /\ op[t].kind = "reset" /\ op[t].step = "verify"
        /\ OpGoto(t, "update", Nil, 0) \/ OpRefuse(t)
    BY <1>3 DEF TakeResetKey
  <2>4. OpTyped'
    BY <1>1, <1>2, <2>1, <2>3, SameRows, OpGotoFacts, OpRefuseFacts
  <2>. QED
    BY <2>1, <2>2, <2>4, SameRows, Frames DEF RestTyped
<1>4. CASE UpdatePassword(t)
  <2>1. UNCHANGED <<rows, badAccess, resetKey, browser, refresh, sent, faults>>
    BY <1>4 DEF UpdatePassword
  <2>2. password' = password + 1 /\ password + 1 \in 0..MaxPassword
    BY <1>4, BoundsAreNat DEF UpdatePassword, RestTyped
  <2>3. PutOp(t, op[t].kind, "revoke", Nil, op[t].jti, password + 1, Nil)
    BY <1>4 DEF UpdatePassword
  <2>4. OpTyped'
    BY <1>1, <1>2, <2>1, <2>2, <2>3, SameRows, PutOpFacts
  <2>5. history' \in History
    <3>1. PICK resets \in [Resets -> Nat] : Record({}, resets, history.torn)
      <4>1. history.resets \in [Resets -> Nat] /\ history.torn \in BOOLEAN
        BY HistoryParts DEF RestTyped
      <4>2. [history.resets EXCEPT ![op[t].key] = @ + 1] \in [Resets -> Nat]
        BY <4>1, OneMore
      <4>. QED
        BY <1>4, <4>1, <4>2 DEF UpdatePassword
    <3>2. history.torn \in BOOLEAN
      BY HistoryParts DEF RestTyped
    <3>. QED
      BY <3>1, <3>2, RecordFacts DEF RestTyped
  <2>. QED
    BY <2>1, <2>2, <2>4, <2>5, SameRows, Frames DEF RestTyped
<1>5. CASE RevokeAll(t)
  <2>1. /\ UNCHANGED <<badAccess, password, resetKey, browser, refresh, sent, faults>>
        /\ RevokeFamilies(Tokens) /\ RecordRaced(InRefresh(Tokens))
        /\ OpGoto(t, IF op[t].kind = "reset" THEN "issue" ELSE "blacklist", Nil, op[t].pw)
    BY <1>5 DEF RevokeAll
  <2>2. RowsTyped' /\ Grown /\ Issued' \subseteq Tokens
    BY <2>1, RevokeFamiliesFacts, IssuedTokens
  <2>3. OpTyped'
    <3>. DEFINE step == IF op[t].kind = "reset" THEN "issue" ELSE "blacklist"
    <3>1. /\ step \in OpSteps /\ step \in {"issue", "blacklist"}
          /\ step = "issue" => op[t].kind # "logout"
      BY <1>2
    <3>2. OpGoto(t, step, Nil, op[t].pw)
      BY <2>1
    <3>. HIDE DEF step
    <3>. QED
      BY <1>1, <1>2, <2>2, <3>1, <3>2, OpGotoFacts
  <2>4. history' \in History
    BY <2>1, RecordRacedFacts DEF InRefresh, RestTyped
  <2>. QED
    BY <2>1, <2>2, <2>3, <2>4, Frames, RestStays DEF RestTyped
<1>6. CASE RevokeOne(t)
  <2>. DEFINE k == op[t].token
              raced == IF k \in revoked THEN FamilyOf(k) ELSE InRefresh(FamilyOf(k))
  <2>1. /\ UNCHANGED <<issued, family, expired, purged, born>>
        /\ UNCHANGED <<badAccess, password, resetKey, browser, refresh, sent, faults>>
        /\ revoked' = IF k = Nil \/ k \in purged THEN revoked ELSE revoked \cup {k}
        /\ RecordRaced(raced)
        /\ OpGoto(t, IF k = Nil THEN "answer" ELSE "blacklist", k, 0)
    BY <1>6 DEF RevokeOne
  <2>2. Issued' = Issued /\ Issued \subseteq Tokens /\ Grown
    BY <2>1, IssuedTokens DEF Issued, Grown
  <2>3. RowsTyped'
    BY <1>1, <2>1, <2>2 DEF RowsTyped, IssuedOrNil
  <2>4. OpTyped'
    <3>. DEFINE step == IF k = Nil THEN "answer" ELSE "blacklist"
    <3>1. step \in OpSteps /\ step \in {"answer", "blacklist"} /\ k \in IssuedOrNil'
      BY <1>1, <1>2, <2>2 DEF IssuedOrNil
    <3>2. OpGoto(t, step, k, 0)
      BY <2>1
    <3>. HIDE DEF step
    <3>. QED
      BY <1>1, <1>2, <2>2, <3>1, <3>2, OpGotoFacts
  <2>5. raced \subseteq Tokens
    BY <1>1, IssuedTokens DEF FamilyOf, InRefresh, RowsTyped, IssuedOrNil
  <2>6. history' \in History
    BY <2>1, <2>5, RecordRacedFacts DEF RestTyped
  <2>. QED
    BY <2>1, <2>2, <2>3, <2>4, <2>6, Frames, RestStays DEF RestTyped
<1>7. CASE Blacklist(t)
  <2>1. /\ UNCHANGED <<rows, password, resetKey, browser, refresh, sent, faults, history>>
        /\ badAccess' = IF op[t].jti = Nil THEN badAccess ELSE badAccess \cup {op[t].jti}
        /\ PutOp(t, op[t].kind, IF op[t].kind = "change" THEN "issue" ELSE "answer",
                 op[t].token, Nil, op[t].pw, Nil)
    BY <1>7 DEF Blacklist
  <2>2. RestTyped'
    BY <1>1, <2>1 DEF RestTyped, TokenOrNil
  <2>3. OpTyped'
    <3>. DEFINE step == IF op[t].kind = "change" THEN "issue" ELSE "answer"
    <3>1. /\ step \in OpSteps /\ step \in {"answer", "issue"}
          /\ step = "issue" => op[t].kind # "logout"
          /\ PutOp(t, op[t].kind, step, op[t].token, Nil, op[t].pw, Nil)
      BY <1>2, <2>1
    <3>. HIDE DEF step
    <3>. QED
      BY <1>1, <1>2, <2>1, <3>1, SameRows, PutOpFacts
  <2>. QED
    BY <2>1, <2>2, <2>3, SameRows, Frames
<1>8. CASE IssueTokenPair(t)
  <2>1. /\ UNCHANGED <<badAccess, password, resetKey, browser, refresh, sent, faults>>
        /\ NewRow(issued + 1, op[t].pw) /\ UNCHANGED revoked
        /\ OpGoto(t, "answer", issued + 1, 0)
        /\ RecordRaced(IF op[t].pw = password THEN {} ELSE {issued + 1})
    BY <1>8 DEF IssueTokenPair
  <2>2. issued + 1 \in 1..(issued + 1)
    BY IssuedTokens
  <2>3. RowsTyped' /\ Grown /\ Issued' \subseteq Tokens /\ issued + 1 \in Issued'
    BY <1>1, <2>1, <2>2, NewRowFacts
  <2>4. OpTyped'
    BY <1>1, <1>2, <2>1, <2>3, OpGotoFacts DEF IssuedOrNil
  <2>5. history' \in History
    BY <2>1, <2>3, RecordRacedFacts DEF RestTyped
  <2>. QED
    BY <2>1, <2>3, <2>4, <2>5, Frames, RestStays DEF RestTyped
<1>9. CASE ServerFails(t)
  <2>1. /\ UNCHANGED <<rows, badAccess, password, resetKey, browser, refresh, sent>>
        /\ OpEnd(t) /\ Record({}, history.resets, TRUE)
    BY <1>9 DEF ServerFails
  <2>2. history' \in History
    BY <2>1, HistoryParts, RecordFacts DEF RestTyped
  <2>3. faults' \in 0..MaxFaults
    BY <1>9, BoundsAreNat DEF ServerFails, RestTyped
  <2>4. OpTyped'
    BY <2>1, SameRows, OpEndFacts
  <2>. QED
    BY <2>1, <2>2, <2>3, <2>4, SameRows, Frames, RestStays DEF RestTyped
<1>. QED
  BY <1>3, <1>4, <1>5, <1>6, <1>7, <1>8, <1>9

\* The answers.
LEMMA AnswerTypes ==
  ASSUME SessionsTyped, NEW t \in Tabs,
         \/ LoginAnswered(t) \/ ResetAnswered(t) \/ PasswordChanged(t) \/ LoggedOut(t)
         \/ LoggedOutAll(t) \/ LoginRetries(t)
  PROVE  /\ SessionsTyped' /\ op[t] # Nil /\ op[t].step \in {"answer", "refused"}
         /\ UNCHANGED <<rows, badAccess, password, resetKey, refresh, sent, faults, history>>
<1>. USE DEF SessionsTyped, OpAt
<1>1. /\ UNCHANGED <<rows, badAccess, password, resetKey, refresh, sent, faults, history>>
      /\ op[t] # Nil /\ op[t].step \in {"answer", "refused"}
  BY DEF LoginAnswered, ResetAnswered, SignedIn, PasswordChanged, LoggedOut, LoggedOutAll,
         LoginRetries
<1>2. op[t].token \in IssuedOrNil /\ op[t].token \in TokenOrNil /\ Nil \in IssuedOrNil
      /\ Nil \in TokenOrNil
  BY <1>1, OpParts, IssuedTokens DEF IssuedOrNil, TokenOrNil
<1>3. Grown /\ IssuedOrNil' = IssuedOrNil /\ Issued' \subseteq Tokens
  BY <1>1, SameRows
<1>4. cookie' \in [Browsers -> IssuedOrNil']
  <2>1. \/ cookie' = cookie \/ \E k \in {op[t].token, Nil} : SetCookie(t, k)
    BY DEF LoginAnswered, ResetAnswered, SignedIn, PasswordChanged, LoggedOut, LoggedOutAll,
           LoginRetries
  <2>. QED
    BY <1>2, <1>3, <2>1, SetCookieFacts DEF BrowserTyped
<1>5. access' \in [Tabs -> TokenOrNil] /\ local' \in [Browsers -> TokenOrNil]
  <2>1. \/ UNCHANGED <<access, local>> \/ \E k \in {op[t].token, Nil} : SetToken(t, k)
    BY DEF LoginAnswered, ResetAnswered, SignedIn, PasswordChanged, LoggedOut, LoggedOutAll,
           LoginRetries, ClearAuth
  <2>. QED
    BY <1>2, <2>1, SetTokenFacts DEF BrowserTyped
<1>6. OpTyped'
  <2>1. OpEnd(t) \/ PutOp(t, "login", "guard", Nil, access[t], 0, Nil)
    BY DEF LoginAnswered, ResetAnswered, SignedIn, PasswordChanged, LoggedOut, LoggedOutAll,
           LoginRetries
  <2>2. access[t] \in TokenOrNil /\ "login" \in OpKinds /\ "guard" \in OpSteps
    BY DEF BrowserTyped, OpKinds, OpSteps
  <2>. QED
    BY <1>2, <1>3, <2>1, <2>2, BoundsAreNat, OpEndFacts, PutOpFacts
<1>7. BrowserTyped'
  BY <1>4, <1>5 DEF BrowserTyped
<1>8. RestTyped'
  BY <1>1 DEF RestTyped
<1>. QED
  BY <1>1, <1>6, <1>7, <1>8, SameRows, Frames

\* Time.
LEMMA TimeTypes ==
  ASSUME SessionsTyped,
         \/ \E k \in Tokens : AccessExpires(k) \/ RefreshExpires(k)
         \/ \E S \in SUBSET Tokens : Cleanup(S)
  PROVE  SessionsTyped'
<1>. USE DEF SessionsTyped
<1>1. ASSUME NEW k \in Tokens, AccessExpires(k) PROVE SessionsTyped'
  <2>1. UNCHANGED <<rows, password, resetKey, browser, refresh, op, sent, faults, history>>
    BY <1>1 DEF AccessExpires
  <2>2. RestTyped'
    BY <1>1, <2>1 DEF AccessExpires, RestTyped
  <2>. QED
    BY <2>1, <2>2, SameRows, Frames
<1>2. ASSUME \/ \E k \in Tokens : RefreshExpires(k)
             \/ \E S \in SUBSET Tokens : Cleanup(S)
      PROVE  SessionsTyped'
  <2>1. /\ UNCHANGED <<issued, family, revoked, born, browser, refresh, op>>
        /\ UNCHANGED <<password, resetKey, sent, faults, history>>
        /\ \/ \E k \in Issued : /\ expired' = expired \cup {k}
                                 /\ badAccess' = badAccess \cup {k}
                                 /\ purged' = purged
           \/ /\ expired' = expired /\ badAccess' = badAccess
              /\ \E S \in SUBSET expired : purged' = purged \cup S
    BY <1>2 DEF RefreshExpires, Cleanup, Issued
  <2>2. Issued' = Issued /\ Grown
    BY <2>1, IssuedTokens DEF Issued, Grown
  <2>3. RowsTyped'
    BY <2>1, <2>2 DEF RowsTyped
  <2>4. RestTyped'
    BY <2>1, IssuedTokens DEF RestTyped
  <2>. QED
    BY <2>1, <2>2, <2>3, <2>4, Frames
<1>. QED
  BY <1>1, <1>2

LEMMA InitTypes == Init => SessionsTyped
<1>. SUFFICES ASSUME Init PROVE SessionsTyped
  OBVIOUS
<1>1. Issued = {1} /\ 1 \in Tokens /\ IssuedOrNil = {1, Nil} /\ Tokens \subseteq TokenOrNil
      /\ Nil \in TokenOrNil
  BY BoundsAreNat DEF Init, Issued, IssuedOrNil, Tokens, TokenOrNil
<1>2. RowsTyped
  BY <1>1, BoundsAreNat DEF Init, RowsTyped
<1>3. BrowserTyped
  <2>1. PICK b \in Browsers :
           /\ cookie = [c \in Browsers |-> IF c = b THEN 1 ELSE Nil]
           /\ local = cookie
           /\ access = [u \in Tabs |-> IF BrowserOf[u] = b THEN 1 ELSE Nil]
    BY DEF Init
  <2>. QED
    BY <1>1, <2>1 DEF BrowserTyped
<1>4. RefreshTyped /\ OpTyped
  BY DEF Init, RefreshTyped, OpTyped
<1>5. RestTyped
  BY BoundsAreNat DEF Init, RestTyped, History
<1>. QED
  BY <1>2, <1>3, <1>4, <1>5 DEF SessionsTyped

LEMMA NextTypes ==
  ASSUME SessionsTyped, [Next]_vars
  PROVE  SessionsTyped'
<1>1. ASSUME NEW t \in Tabs, OpNext(t) PROVE SessionsTyped'
  BY <1>1, OpOnlyTypes, WriteTypes, AnswerTypes DEF OpNext
<1>2. CASE UNCHANGED vars
  <2>1. UNCHANGED notOp /\ UNCHANGED op
    BY <1>2 DEF vars, notOp
  <2>2. UNCHANGED rows
    BY <2>1 DEF notOp
  <2>. QED
    BY <2>1, <2>2, SameRows, Frames, OnlyOp
<1>. QED
  BY <1>1, <1>2, RefreshTypes, RequestTypes, TimeTypes DEF Next

-----------------------------------------------------------------------------
(* One usable token in a family *)

\* Rows are revoked, expire and are deleted, and families are noted: every
\* step but Rotate and IssueTokenPair.
Fades ==
    /\ UNCHANGED <<issued, family, born>>
    /\ revoked \subseteq revoked' /\ expired \subseteq expired' /\ purged \subseteq purged'
    /\ history.raced \subseteq history'.raced

\* Besides, no refresh goes on to rotate or has rotated: not ReadRow either.
Withers ==
    /\ Fades
    /\ \A u \in Tabs : refresh'[u] # Nil /\ refresh'[u].step \in {"rotate", "answer"}
          => refresh'[u] = refresh[u]

\* Such a step that notes the family of a token that is revoked while a
\* refresh is about to rotate it.
Revokes ==
    /\ Withers
    /\ \A u \in Tabs : RefreshAt(u, "rotate") /\ refresh[u].token \in revoked' \ revoked
          => family[refresh[u].token] \in history'.raced

Quiet == Withers /\ UNCHANGED rows

LEMMA QuietRevokes == Quiet => Revokes
BY DEF Quiet, Revokes, rows

LEMMA RefreshQuiet ==
  ASSUME SessionsTyped, NEW t \in Tabs,
         \/ \E by \in Triggers : StartRefresh(t, by)
         \/ Reload(t) \/ RefreshAnswered(t) \/ RefreshRefused(t) \/ RefreshLost(t)
         \/ DebounceOver(t)
  PROVE  Quiet
<1>1. UNCHANGED <<issued, family, revoked, expired, purged, born, history>>
  BY DEF StartRefresh, Reload, RefreshAnswered, RefreshRefused, RefreshLost, DebounceOver, rows
<1>2. refresh \in [Tabs -> Refresh \cup {Nil}]
  BY DEF SessionsTyped, RefreshTyped
<1>3. \/ refresh' = refresh
      \/ refresh' = [refresh EXCEPT ![t] = Nil]
      \/ \E by \in Triggers, step \in {"sent", "settled"}, token \in {Nil, cookie[BrowserOf[t]]} :
             refresh' = [refresh EXCEPT ![t] = [by |-> by, step |-> step, token |-> token]]
  BY DEF StartRefresh, Reload, RefreshAnswered, RefreshRefused, RefreshLost, DebounceOver,
         Settle, PutRefresh, Triggers
<1>4. ASSUME NEW u \in Tabs, refresh'[u] # Nil, refresh'[u].step \in {"rotate", "answer"}
      PROVE  refresh'[u] = refresh[u]
  BY <1>2, <1>3, <1>4
<1>. QED
  BY <1>1, <1>4 DEF Quiet, Withers, Fades, rows

LEMMA OpQuiet ==
  ASSUME SessionsTyped, NEW t \in Tabs,
         \/ Requests(t) \/ UNCHANGED notOp \/ TakeResetKey(t) \/ UpdatePassword(t)
         \/ Blacklist(t) \/ ServerFails(t)
         \/ UNCHANGED <<rows, badAccess, password, resetKey, refresh, sent, faults, history>>
         \/ \E k \in Tokens : AccessExpires(k)
  PROVE  Quiet
<1>1. UNCHANGED <<issued, family, revoked, expired, purged, born, refresh>>
  BY DEF Requests, SendGuest, SendSignedIn, Send, ForgotPassword, notOp, TakeResetKey,
         UpdatePassword, Blacklist, ServerFails, AccessExpires, rows
<1>2. history.raced \subseteq history'.raced
  <2>1. history \in History /\ history.resets \in [Resets -> Nat] /\ history.torn \in BOOLEAN
    BY HistoryParts DEF SessionsTyped, RestTyped
  <2>2. CASE UpdatePassword(t)
    BY <2>2 DEF UpdatePassword, Record
  <2>3. CASE ServerFails(t)
    BY <2>3 DEF ServerFails, Record
  <2>4. CASE history' = history
    BY <2>4
  <2>. QED
    BY <2>2, <2>3, <2>4
    DEF Requests, SendGuest, SendSignedIn, Send, ForgotPassword, notOp, TakeResetKey,
        Blacklist, AccessExpires
<1>. QED
  BY <1>1, <1>2 DEF Quiet, Withers, Fades, rows

\* Reuse, sign-out and "sign out everywhere" note the refreshes they meet.
LEMMA RevokeSteps ==
  ASSUME SessionsTyped, NEW t \in Tabs, RevokeFamily(t) \/ RevokeAll(t) \/ RevokeOne(t)
  PROVE  Revokes
<1>. USE DEF SessionsTyped
<1>1. history \in History
  BY DEF RestTyped
<1>2. CASE RevokeFamily(t)
  <2>. DEFINE f == family[refresh[t].token]
  <2>1. refresh[t] # Nil /\ refresh[t].step = "reuse" /\ refresh[t].token \in Issued
    BY <1>2 DEF RevokeFamily, RefreshAt, RefreshTyped
  <2>2. f \in Tokens
    BY <2>1, IssuedTokens DEF RowsTyped
  <2>3. history'.raced = history.raced \cup RefreshedElsewhere({f}, t)
    BY <1>1, <1>2, <2>2, RecordRacedFacts DEF RevokeFamily, RefreshedElsewhere
  <2>4. RevokeFamilies({f})
    BY <1>2 DEF RevokeFamily
  <2>5. /\ UNCHANGED <<issued, family, expired, purged, born>>
        /\ revoked' = revoked \cup {k \in Issued \ purged : family[k] \in {f}}
    BY <2>4 DEF RevokeFamilies, Issued
  <2>6. ASSUME NEW u \in Tabs, RefreshAt(u, "rotate"), refresh[u].token \in revoked' \ revoked
        PROVE  family[refresh[u].token] \in history'.raced
    <3>1. u # t /\ family[refresh[u].token] = f /\ Refreshing(f, u)
      BY <2>1, <2>5, <2>6 DEF RefreshAt, Refreshing
    <3>. QED
      BY <2>3, <3>1 DEF RefreshedElsewhere
  <2>7. refresh' = [refresh EXCEPT ![t] = [by |-> refresh[t].by, step |-> "refused", token |-> Nil]]
    BY <1>2 DEF RevokeFamily, RefreshGoto, PutRefresh
  <2>8. ASSUME NEW u \in Tabs, refresh'[u] # Nil, refresh'[u].step \in {"rotate", "answer"}
        PROVE  refresh'[u] = refresh[u]
    BY <2>7, <2>8 DEF RefreshTyped
  <2>. QED
    BY <2>3, <2>5, <2>6, <2>8 DEF Revokes, Withers, Fades
<1>3. CASE RevokeAll(t)
  <2>1. UNCHANGED <<issued, family, expired, purged, born, refresh>> /\ revoked \subseteq revoked'
    BY <1>3, RevokeFamiliesFacts DEF RevokeAll
  <2>2. history'.raced = history.raced \cup InRefresh(Tokens)
    BY <1>1, <1>3, RecordRacedFacts DEF RevokeAll, InRefresh
  <2>3. ASSUME NEW u \in Tabs, RefreshAt(u, "rotate")
        PROVE  family[refresh[u].token] \in history'.raced
    <3>1. family[refresh[u].token] \in Tokens
      BY <2>3, IssuedTokens DEF RefreshAt, RefreshTyped, RowsTyped
    <3>. QED
      BY <2>2, <2>3, <3>1 DEF InRefresh, Refreshing, RefreshAt
  <2>. QED
    BY <2>1, <2>2, <2>3 DEF Revokes, Withers, Fades
<1>4. CASE RevokeOne(t)
  <2>. DEFINE k == op[t].token
              raced == IF k \in revoked THEN FamilyOf(k) ELSE InRefresh(FamilyOf(k))
  <2>1. /\ UNCHANGED <<issued, family, expired, purged, born, refresh>>
        /\ revoked' = IF k = Nil \/ k \in purged THEN revoked ELSE revoked \cup {k}
        /\ RecordRaced(raced)
    BY <1>4 DEF RevokeOne
  <2>2. k \in IssuedOrNil
    BY <1>4, OpParts DEF RevokeOne, OpAt
  <2>3. raced \subseteq Tokens
    BY <2>2, IssuedTokens DEF FamilyOf, InRefresh, RowsTyped, IssuedOrNil
  <2>4. history'.raced = history.raced \cup raced
    BY <1>1, <2>1, <2>3, RecordRacedFacts
  <2>5. ASSUME NEW u \in Tabs, RefreshAt(u, "rotate"), refresh[u].token \in revoked' \ revoked
        PROVE  family[refresh[u].token] \in history'.raced
    <3>1. k # Nil /\ k \notin revoked /\ refresh[u].token = k
      BY <2>1, <2>5
    <3>2. Refreshing(family[k], u)
      BY <2>5, <3>1 DEF Refreshing, RefreshAt
    <3>. QED
      BY <2>4, <3>1, <3>2 DEF InRefresh, FamilyOf
  <2>. QED
    BY <2>1, <2>4, <2>5 DEF Revokes, Withers, Fades
<1>. QED
  BY <1>2, <1>3, <1>4

LEMMA RevokesKeeps ==
  ASSUME SessionsTyped, FamiliesInv, Revokes
  PROVE  FamiliesInv'
<1>. USE DEF SessionsTyped
<1>1. /\ UNCHANGED <<issued, family>> /\ revoked \subseteq revoked'
      /\ history.raced \subseteq history'.raced
      /\ \A u \in Tabs : refresh'[u] # Nil /\ refresh'[u].step \in {"rotate", "answer"}
            => refresh'[u] = refresh[u]
  BY DEF Revokes, Withers, Fades
<1>4. RotatesUnrevoked'
  <2>1. SUFFICES ASSUME NEW u \in Tabs, RefreshAt(u, "rotate")'
                 PROVE  \/ family'[refresh'[u].token] \in history'.raced
                        \/ refresh'[u].token \notin revoked'
    BY DEF RotatesUnrevoked
  <2>2. RefreshAt(u, "rotate") /\ refresh'[u] = refresh[u]
    BY <1>1, <2>1 DEF RefreshAt
  <2>3. family[refresh[u].token] \in history.raced \/ refresh[u].token \notin revoked
    BY <2>2 DEF FamiliesInv, RotatesUnrevoked
  <2>4. CASE refresh[u].token \in revoked' \ revoked
    BY <1>1, <2>2, <2>4 DEF Revokes
  <2>5. CASE refresh[u].token \notin revoked' \ revoked
    BY <1>1, <2>2, <2>3, <2>5
  <2>. QED
    BY <2>4, <2>5
<1>5. RefreshesAlone'
  <2>1. SUFFICES ASSUME NEW u \in Tabs, NEW v \in Tabs, NEW f \in Tokens,
                        u # v, Refreshing(f, u)', Refreshing(f, v)'
                 PROVE  f \in history'.raced
    BY DEF RefreshesAlone
  <2>2. Refreshing(f, u) /\ Refreshing(f, v)
    BY <1>1, <2>1 DEF Refreshing
  <2>. QED
    BY <1>1, <2>1, <2>2 DEF FamiliesInv, RefreshesAlone
<1>6. OneUnrevoked'
  BY <1>1 DEF FamiliesInv, OneUnrevoked, Issued
<1>. QED
  BY <1>4, <1>5, <1>6 DEF FamiliesInv

LEMMA ReadRowKeeps ==
  ASSUME SessionsTyped, FamiliesInv, NEW t \in Tabs, ReadRow(t)
  PROVE  /\ FamiliesInv' /\ UNCHANGED rows /\ history.raced \subseteq history'.raced
         /\ \A u \in Tabs : RefreshAt(u, "rotate")' =>
               (RefreshAt(u, "rotate") /\ refresh'[u] = refresh[u]) \/ Live(refresh'[u].token)
<1>. USE DEF SessionsTyped
<1>. DEFINE k == refresh[t].token
<1>1. UNCHANGED <<issued, family, revoked, expired, purged, born>>
  BY DEF ReadRow, rows
<1>2. refresh[t] # Nil /\ k \in IssuedOrNil
  BY RefreshParts DEF ReadRow, RefreshAt
<1>3. history'.raced = history.raced \cup RefreshedElsewhere(FamilyOf(k), t)
  <2>1. RecordRaced(RefreshedElsewhere(FamilyOf(k), t))
    BY DEF ReadRow
  <2>2. RefreshedElsewhere(FamilyOf(k), t) \subseteq Tokens
    BY <1>2, IssuedTokens DEF RefreshedElsewhere, FamilyOf, IssuedOrNil, RowsTyped
  <2>. QED
    BY <2>1, <2>2, RecordRacedFacts DEF RestTyped
<1>4. \E step \in {"refused", "reuse", "rotate"} : \E token :
         /\ refresh' = [refresh EXCEPT ![t] = [by |-> refresh[t].by, step |-> step, token |-> token]]
         /\ step = "rotate" => token = k /\ k # Nil /\ Live(k)
  BY DEF ReadRow, RefreshGoto, PutRefresh
<1>5. /\ \A u \in Tabs \ {t} : refresh'[u] = refresh[u]
      /\ refresh'[t].step \in {"rotate", "answer"} =>
            refresh'[t].step = "rotate" /\ refresh'[t].token = k /\ k # Nil /\ Live(k)
  BY <1>4 DEF RefreshTyped
<1>7. OneUnrevoked'
  BY <1>1, <1>3 DEF FamiliesInv, OneUnrevoked, Issued
<1>8. RotatesUnrevoked'
  <2>1. SUFFICES ASSUME NEW u \in Tabs, RefreshAt(u, "rotate")'
                 PROVE  \/ family'[refresh'[u].token] \in history'.raced
                        \/ refresh'[u].token \notin revoked'
    BY DEF RotatesUnrevoked
  <2>2. CASE u = t
    BY <1>1, <1>5, <2>1, <2>2 DEF RefreshAt, Live
  <2>3. CASE u # t
    BY <1>1, <1>3, <1>5, <2>1, <2>3 DEF RefreshAt, FamiliesInv, RotatesUnrevoked
  <2>. QED
    BY <2>2, <2>3
<1>9. RefreshesAlone'
  <2>1. SUFFICES ASSUME NEW u \in Tabs, NEW v \in Tabs, NEW f \in Tokens,
                        u # v, Refreshing(f, u)', Refreshing(f, v)'
                 PROVE  f \in history'.raced
    BY DEF RefreshesAlone
  <2>2. ASSUME NEW w \in Tabs \ {t}, Refreshing(f, t)', Refreshing(f, w)'
        PROVE  f \in history'.raced
    <3>1. k # Nil /\ family[k] = f
      BY <1>1, <1>5, <2>2 DEF Refreshing
    <3>2. Refreshing(f, w)
      BY <1>1, <1>5, <2>2 DEF Refreshing
    <3>. QED
      BY <1>3, <3>1, <3>2 DEF RefreshedElsewhere, FamilyOf
  <2>3. CASE u # t /\ v # t
    <3>1. Refreshing(f, u) /\ Refreshing(f, v)
      BY <1>1, <1>5, <2>1, <2>3 DEF Refreshing
    <3>. QED
      BY <1>3, <2>1, <3>1 DEF FamiliesInv, RefreshesAlone
  <2>. QED
    BY <2>1, <2>2, <2>3
<1>10. \A u \in Tabs : RefreshAt(u, "rotate")' =>
          (RefreshAt(u, "rotate") /\ refresh'[u] = refresh[u]) \/ Live(refresh'[u].token)
  BY <1>5 DEF RefreshAt
<1>. QED
  BY <1>1, <1>3, <1>7, <1>8, <1>9, <1>10 DEF FamiliesInv, rows

\* What a rotation does to the rows, the refreshes and the history.
LEMMA RotateFacts ==
  ASSUME SessionsTyped, NEW t \in Tabs, Rotate(t), NEW k, k = refresh[t].token
  PROVE  /\ RefreshAt(t, "rotate") /\ k \in Issued /\ family[k] \in Issued
         /\ Issued' = Issued \cup {issued + 1} /\ issued + 1 \notin Issued /\ issued' = issued + 1
         /\ family'[issued + 1] = family[k] /\ \A j \in Issued : family'[j] = family[j]
         /\ \A j \in Issued : born'[j] = born[j]
         /\ revoked' = revoked \cup {k} /\ expired' = expired /\ purged' = purged
         /\ refresh'[t].step = "answer" /\ refresh'[t].token = issued + 1
         /\ \A u \in Tabs \ {t} : refresh'[u] = refresh[u]
         /\ UNCHANGED <<badAccess, password, resetKey, browser, op, sent, faults, history>>
<1>. USE DEF SessionsTyped
<1>1. /\ RefreshAt(t, "rotate") /\ NewRow(family[k], 0) /\ revoked' = revoked \cup {k}
      /\ UNCHANGED <<badAccess, password, resetKey, browser, op, sent, faults, history>>
      /\ refresh' = [refresh EXCEPT ![t] =
                        [by |-> refresh[t].by, step |-> "answer", token |-> issued + 1]]
  BY DEF Rotate, RotateRow, RefreshGoto, PutRefresh
<1>2. k \in Issued /\ family[k] \in Issued
  BY <1>1 DEF RefreshAt, RefreshTyped, RowsTyped
<1>3. family[k] \in 1..(issued + 1) /\ 0 \in 0..MaxPassword
  BY <1>2, IssuedTokens, BoundsAreNat DEF Issued
<1>4. /\ refresh'[t].step = "answer" /\ refresh'[t].token = issued + 1
      /\ \A u \in Tabs \ {t} : refresh'[u] = refresh[u]
  BY <1>1 DEF RefreshTyped
<1>. QED
  BY <1>1, <1>2, <1>3, <1>4, NewRowFacts

LEMMA RotateKeeps ==
  ASSUME SessionsTyped, FamiliesInv, NEW t \in Tabs, Rotate(t)
  PROVE  FamiliesInv'
<1>. USE DEF SessionsTyped
<1>. DEFINE k == refresh[t].token
            n == issued + 1
<1>1. /\ RefreshAt(t, "rotate") /\ k \in Issued
      /\ Issued' = Issued \cup {n} /\ n \notin Issued
      /\ family'[n] = family[k] /\ \A j \in Issued : family'[j] = family[j]
      /\ revoked' = revoked \cup {k} /\ expired' = expired /\ purged' = purged
      /\ refresh'[t].step = "answer" /\ refresh'[t].token = n
      /\ \A u \in Tabs \ {t} : refresh'[u] = refresh[u]
      /\ history' = history
  BY RotateFacts
<1>. HIDE DEF k, n
<1>2. family[k] \in history.raced \/ k \notin revoked
  BY <1>1 DEF FamiliesInv, RotatesUnrevoked, k
<1>3. revoked \subseteq Issued
  BY DEF RowsTyped
<1>7. \A u \in Tabs, f \in Tokens : Refreshing(f, u)' => Refreshing(f, u)
  <2>1. SUFFICES ASSUME NEW u \in Tabs, NEW f \in Tokens, Refreshing(f, u)'
                 PROVE  Refreshing(f, u)
    OBVIOUS
  <2>2. CASE u = t
    BY <1>1, <2>1, <2>2 DEF Refreshing, RefreshAt, k
  <2>3. CASE u # t
    <3>1. refresh'[u] = refresh[u] /\ refresh[u].token \in Issued
      BY <1>1, <2>1, <2>3 DEF Refreshing, RefreshTyped
    <3>. QED
      BY <1>1, <2>1, <3>1 DEF Refreshing
  <2>. QED
    BY <2>2, <2>3
<1>8. RefreshesAlone'
  BY <1>1, <1>7 DEF FamiliesInv, RefreshesAlone
<1>9. RotatesUnrevoked'
  <2>1. SUFFICES ASSUME NEW u \in Tabs, RefreshAt(u, "rotate")'
                 PROVE  \/ family'[refresh'[u].token] \in history'.raced
                        \/ refresh'[u].token \notin revoked'
    BY DEF RotatesUnrevoked
  <2>2. u # t /\ refresh'[u] = refresh[u] /\ RefreshAt(u, "rotate")
    BY <1>1, <2>1 DEF RefreshAt
  <2>. DEFINE j == refresh[u].token
  <2>3. j \in Issued /\ (family[j] \in history.raced \/ j \notin revoked)
    BY <2>2 DEF FamiliesInv, RotatesUnrevoked, RefreshAt, RefreshTyped
  <2>4. j = k => family[j] \in history.raced
    <3>1. SUFFICES ASSUME j = k PROVE family[k] \in history.raced
      OBVIOUS
    <3>2. Refreshing(family[k], u) /\ Refreshing(family[k], t)
      BY <1>1, <2>2, <3>1 DEF Refreshing, RefreshAt, k
    <3>3. family[k] \in Tokens
      BY <1>1, IssuedTokens DEF RowsTyped
    <3>. QED
      BY <2>2, <3>2, <3>3 DEF FamiliesInv, RefreshesAlone
  <2>. QED
    BY <1>1, <2>2, <2>3, <2>4
<1>10. OneUnrevoked'
  <2>1. SUFFICES ASSUME NEW i \in Issued', NEW j \in Issued', i # j, family'[i] = family'[j],
                        i \notin revoked', j \notin revoked'
                 PROVE  family'[i] \in history'.raced
    BY DEF OneUnrevoked
  <2>2. ASSUME NEW m \in Issued, family[m] = family[k], m \notin revoked, m # k
        PROVE  family[k] \in history.raced
    BY <1>1, <1>2, <2>2 DEF FamiliesInv, OneUnrevoked
  <2>3. CASE i \in Issued /\ j \in Issued
    BY <1>1, <2>1, <2>3 DEF FamiliesInv, OneUnrevoked
  <2>4. CASE i \in Issued /\ j = n
    BY <1>1, <2>1, <2>2, <2>4
  <2>5. CASE i = n /\ j \in Issued
    BY <1>1, <2>1, <2>2, <2>5
  <2>. QED
    BY <1>1, <2>1, <2>3, <2>4, <2>5
<1>. QED
  BY <1>8, <1>9, <1>10 DEF FamiliesInv

\* What a sign-in does to the rows and the history.
LEMMA IssueFacts ==
  ASSUME SessionsTyped, NEW t \in Tabs, IssueTokenPair(t)
  PROVE  /\ op[t] # Nil /\ op[t].pw \in 0..MaxPassword /\ issued' = issued + 1
         /\ Issued' = Issued \cup {issued + 1} /\ issued + 1 \notin Issued /\ Issued' \subseteq Tokens
         /\ family'[issued + 1] = issued + 1 /\ \A j \in Issued : family'[j] = family[j]
         /\ born'[issued + 1] = op[t].pw /\ \A j \in Issued : born'[j] = born[j]
         /\ revoked' = revoked /\ expired' = expired /\ purged' = purged
         /\ history'.raced = history.raced \cup (IF op[t].pw = password THEN {} ELSE {issued + 1})
         /\ history'.resets = history.resets /\ history'.torn = history.torn
         /\ op'[t].kind = op[t].kind /\ op'[t].step = "answer" /\ op'[t].token = issued + 1
         /\ \A u \in Tabs \ {t} : op'[u] = op[u]
         /\ UNCHANGED <<badAccess, password, resetKey, browser, refresh, sent, faults>>
<1>. USE DEF SessionsTyped
<1>. DEFINE raced == IF op[t].pw = password THEN {} ELSE {issued + 1}
<1>1. /\ op[t] # Nil /\ NewRow(issued + 1, op[t].pw) /\ revoked' = revoked
      /\ UNCHANGED <<badAccess, password, resetKey, browser, refresh, sent, faults>>
      /\ OpGoto(t, "answer", issued + 1, 0)
      /\ RecordRaced(raced)
  BY DEF IssueTokenPair
<1>2. op[t].pw \in 0..MaxPassword
  BY <1>1, OpParts
<1>3. issued + 1 \in 1..(issued + 1)
  BY IssuedTokens
<1>4. /\ Grown /\ Issued' = Issued \cup {issued + 1} /\ issued + 1 \notin Issued
      /\ issued' = issued + 1
      /\ family'[issued + 1] = issued + 1 /\ \A j \in Issued : family'[j] = family[j]
      /\ born'[issued + 1] = op[t].pw /\ \A j \in Issued : born'[j] = born[j]
      /\ expired' = expired /\ purged' = purged /\ Issued' \subseteq Tokens
  BY <1>1, <1>2, <1>3, NewRowFacts
<1>5. raced \subseteq Tokens
  BY <1>4
<1>6. /\ history'.raced = history.raced \cup raced
      /\ history'.resets = history.resets /\ history'.torn = history.torn
  BY <1>1, <1>5, RecordRacedFacts DEF RestTyped
<1>7. issued + 1 \in IssuedOrNil' /\ 0 \in 0..MaxPassword /\ "answer" \in OpSteps
  BY <1>4, BoundsAreNat DEF IssuedOrNil, OpSteps
<1>8. /\ op'[t].kind = op[t].kind /\ op'[t].step = "answer" /\ op'[t].token = issued + 1
      /\ \A u \in Tabs \ {t} : op'[u] = op[u]
  BY <1>1, <1>4, <1>7, OpGotoFacts
<1>. QED
  BY <1>1, <1>2, <1>4, <1>6, <1>8

LEMMA IssueKeeps ==
  ASSUME SessionsTyped, FamiliesInv, NEW t \in Tabs, IssueTokenPair(t)
  PROVE  FamiliesInv'
<1>. USE DEF SessionsTyped
<1>. DEFINE n == issued + 1
<1>1. /\ Issued' = Issued \cup {n} /\ n \notin Issued
      /\ family'[n] = n /\ \A j \in Issued : family'[j] = family[j]
      /\ revoked' = revoked /\ expired' = expired /\ purged' = purged
      /\ history.raced \subseteq history'.raced /\ refresh' = refresh
  BY IssueFacts
<1>. HIDE DEF n
<1>2. /\ \A j \in Issued : family[j] \in Issued
      /\ expired \subseteq Issued /\ purged \subseteq Issued /\ revoked \subseteq Issued
  BY DEF RowsTyped
<1>4. \A u \in Tabs, f \in Tokens : Refreshing(f, u)' => Refreshing(f, u)
  BY <1>1 DEF Refreshing, RefreshTyped
<1>6. RefreshesAlone'
  BY <1>1, <1>4 DEF FamiliesInv, RefreshesAlone
<1>7. RotatesUnrevoked'
  <2>1. \A u \in Tabs : RefreshAt(u, "rotate") => refresh[u].token \in Issued
    BY DEF RefreshAt, RefreshTyped
  <2>. QED
    BY <1>1, <2>1 DEF FamiliesInv, RotatesUnrevoked, RefreshAt
<1>8. OneUnrevoked'
  BY <1>1, <1>2 DEF FamiliesInv, OneUnrevoked
<1>. QED
  BY <1>6, <1>7, <1>8 DEF FamiliesInv

\* Time: tokens expire, also while a refresh is about to rotate them, and a
\* cleanup deletes what has expired.
LEMMA TimeRevokes ==
  ASSUME SessionsTyped,
         \/ \E k \in Tokens : RefreshExpires(k)
         \/ \E S \in SUBSET Tokens : Cleanup(S)
  PROVE  Revokes
BY DEF RefreshExpires, Cleanup, Revokes, Withers, Fades

\* Every step is of one of these kinds.
LEMMA StepKinds ==
  ASSUME SessionsTyped, [Next]_vars
  PROVE  \/ Revokes
         \/ \E t \in Tabs : ReadRow(t) \/ Rotate(t) \/ IssueTokenPair(t)
<1>1. ASSUME NEW t \in Tabs, RefreshNext(t)
      PROVE  Revokes \/ ReadRow(t) \/ Rotate(t)
  <2>1. \/ \/ \E by \in Triggers : StartRefresh(t, by)
           \/ Reload(t) \/ RefreshAnswered(t) \/ RefreshRefused(t) \/ RefreshLost(t)
           \/ DebounceOver(t)
        \/ ReadRow(t) \/ RevokeFamily(t) \/ Rotate(t)
    BY <1>1 DEF RefreshNext, FetchUnauthorized, SocketAuthError, Bootstrap, Triggers
  <2>. QED
    BY <2>1, RefreshQuiet, RevokeSteps, QuietRevokes
<1>2. ASSUME NEW t \in Tabs, Requests(t) PROVE Revokes
  BY <1>2, OpQuiet, QuietRevokes
<1>3. ASSUME NEW t \in Tabs, OpNext(t) PROVE Revokes \/ IssueTokenPair(t)
  <2>1. \/ UNCHANGED notOp
        \/ TakeResetKey(t) \/ UpdatePassword(t) \/ Blacklist(t) \/ ServerFails(t)
        \/ UNCHANGED <<rows, badAccess, password, resetKey, refresh, sent, faults, history>>
        \/ RevokeAll(t) \/ RevokeOne(t) \/ IssueTokenPair(t)
    BY <1>3, OpOnlyTypes, AnswerTypes DEF OpNext
  <2>. QED
    BY <2>1, OpQuiet, RevokeSteps, QuietRevokes
<1>4. ASSUME NEW k \in Tokens, AccessExpires(k) PROVE Revokes
  <2>1. PICK t \in Tabs : access[t] = k
    BY <1>4 DEF AccessExpires
  <2>. QED
    BY <1>4, <2>1, OpQuiet, QuietRevokes
<1>5. CASE UNCHANGED vars
  BY <1>5 DEF vars, rows, Revokes, Withers, Fades
<1>. QED
  BY <1>1, <1>2, <1>3, <1>4, <1>5, TimeRevokes DEF Next

LEMMA FamiliesStep ==
  ASSUME SessionsTyped, FamiliesInv, [Next]_vars
  PROVE  FamiliesInv'
BY StepKinds, RevokesKeeps, ReadRowKeeps, RotateKeeps, IssueKeeps

LEMMA InitFamilies == Init => FamiliesInv
<1>. SUFFICES ASSUME Init PROVE FamiliesInv
  OBVIOUS
<1>1. Issued = {1} /\ \A t \in Tabs : refresh[t] = Nil
  BY DEF Init, Issued
<1>2. RotatesUnrevoked /\ RefreshesAlone
  BY <1>1 DEF RotatesUnrevoked, RefreshesAlone, RefreshAt, Refreshing
<1>3. OneUnrevoked
  BY <1>1 DEF OneUnrevoked
<1>. QED
  BY <1>2, <1>3 DEF FamiliesInv

\* Every reachable state of the sessions is well typed.
THEOREM SessionTypes == Spec => []TypeOK
<1>1. Init => SessionsTyped
  BY InitTypes
<1>2. SessionsTyped /\ [Next]_vars => SessionsTyped'
  BY NextTypes
<1>3. SessionsTyped => TypeOK
  BY TypesImplied
<1>. QED
  BY <1>1, <1>2, <1>3, PTL DEF Spec

LEMMA FamiliesAlways == Spec => [](SessionsTyped /\ FamiliesInv)
<1>1. Init => SessionsTyped /\ FamiliesInv
  BY InitTypes, InitFamilies
<1>2. SessionsTyped /\ FamiliesInv /\ [Next]_vars => (SessionsTyped /\ FamiliesInv)'
  BY NextTypes, FamiliesStep
<1>. QED
  BY <1>1, <1>2, PTL DEF Spec

\* For any number of tabs, browsers, tokens, links and faults, rotation keeps
\* at most one usable token in a family that two requests never used at once.
THEOREM OneUsableToken == Spec => []OneLiveToken
<1>1. FamiliesInv => OneLiveToken
  BY DEF FamiliesInv, OneUnrevoked, OneLiveToken, Live, Issued
<1>. QED
  BY <1>1, FamiliesAlways, PTL

-----------------------------------------------------------------------------
(* The lifecycle of a family *)

\* What the state of a family says.
LEMMA StateIs ==
  ASSUME NEW f
  PROVE  /\ SessionState(f) = "unborn" <=> ~\E k \in Issued : family[k] = f
         /\ SessionState(f) = "exempt" <=>
               (\E k \in Issued : family[k] = f) /\ f \in history.raced
         /\ SessionState(f) = "alive" <=>
               (\E k \in Issued : family[k] = f) /\ f \notin history.raced /\ GoesOn(f)
         /\ SessionState(f) \in {"unborn", "exempt", "alive", "ended"}
BY DEF SessionState, Issued

\* A step that issues no token brings no family back: who reads a row goes on
\* to rotate it only if it is usable.
LEMMA NothingRevives ==
  ASSUME SessionsTyped, FamiliesInv, Withers \/ \E t \in Tabs : ReadRow(t)
  PROVE  Fades /\ \A f : GoesOn(f)' => GoesOn(f)
<1>1. Fades
  BY ReadRowKeeps DEF Withers, Fades, rows
<1>2. \A u \in Tabs : RefreshAt(u, "rotate")' =>
         (RefreshAt(u, "rotate") /\ refresh'[u] = refresh[u]) \/ Live(refresh'[u].token)
  <2>1. CASE Withers
    BY <2>1 DEF Withers, RefreshAt
  <2>2. CASE \E t \in Tabs : ReadRow(t)
    BY <2>2, ReadRowKeeps
  <2>. QED
    BY <2>1, <2>2
<1>3. family' = family /\ issued' = issued /\ \A k : Live(k)' => Live(k)
  BY <1>1 DEF Fades, Live
<1>4. ASSUME NEW f, Alive(f)' PROVE GoesOn(f)
  BY <1>3, <1>4 DEF GoesOn, Alive
<1>5. ASSUME NEW f, Renewing(f)' PROVE GoesOn(f)
  <2>1. PICK u \in Tabs : RefreshAt(u, "rotate")' /\ family[refresh'[u].token] = f
    BY <1>3, <1>5 DEF Renewing
  <2>2. CASE RefreshAt(u, "rotate") /\ refresh'[u] = refresh[u]
    BY <2>1, <2>2 DEF GoesOn, Renewing
  <2>3. CASE Live(refresh'[u].token)
    BY <2>1, <2>3 DEF GoesOn, Alive, Live
  <2>. QED
    BY <1>2, <2>1, <2>2, <2>3
<1>. QED
  BY <1>1, <1>4, <1>5 DEF GoesOn

\* It ends families and exempts families.
LEMMA FadesEnds ==
  ASSUME SessionsTyped, Fades, \A f : GoesOn(f)' => GoesOn(f)
  PROVE  Lifecycle!End
<1>1. Issued' = Issued /\ family' = family /\ history.raced \subseteq history'.raced
  BY DEF Fades, Issued
<1>2. ASSUME NEW f \in Tokens
      PROVE  /\ SessionState(f)' \in {"unborn", "exempt", "alive", "ended"}
             /\ Lifecycle!MayBecome(SessionState(f), SessionState(f)')
  <2>1. /\ SessionState(f)' = "unborn" <=> ~\E k \in Issued' : family'[k] = f
        /\ SessionState(f)' = "exempt" <=>
               (\E k \in Issued' : family'[k] = f) /\ f \in history'.raced
        /\ SessionState(f)' = "alive" <=>
               (\E k \in Issued' : family'[k] = f) /\ f \notin history'.raced /\ GoesOn(f)'
        /\ SessionState(f)' \in {"unborn", "exempt", "alive", "ended"}
    BY DEF SessionState, Issued
  <2>. QED
    BY <1>1, <2>1, StateIs DEF Lifecycle!MayBecome
<1>. DEFINE s == [f \in Tokens |-> SessionState(f)]
<1>3. s' \in [Tokens -> {"unborn", "alive", "ended", "exempt"}]
  BY <1>2
<1>4. \A f \in Tokens : Lifecycle!MayBecome(s[f], s'[f])
  BY <1>2
<1>. QED
  BY <1>3, <1>4 DEF Lifecycle!End, Lifecycle!States

\* A rotation, of a token that has expired since it was read as well, leaves
\* its family going on.
LEMMA RotateGoesOn ==
  ASSUME SessionsTyped, NEW t \in Tabs, Rotate(t)
  PROVE  \A f : GoesOn(f)' <=> GoesOn(f)
<1>. USE DEF SessionsTyped
<1>. DEFINE k == refresh[t].token
            n == issued + 1
<1>1. /\ RefreshAt(t, "rotate") /\ k \in Issued
      /\ Issued' = Issued \cup {n} /\ n \notin Issued
      /\ family'[n] = family[k] /\ \A j \in Issued : family'[j] = family[j]
      /\ revoked' = revoked \cup {k} /\ expired' = expired /\ purged' = purged
      /\ refresh'[t].step = "answer"
      /\ \A u \in Tabs \ {t} : refresh'[u] = refresh[u]
  BY RotateFacts
<1>2. expired \subseteq Issued /\ purged \subseteq Issued /\ revoked \subseteq Issued
  BY DEF RowsTyped
<1>3. /\ \A f : Alive(f) <=> \E j \in Issued : /\ family[j] = f
                                               /\ j \notin revoked \cup expired \cup purged
      /\ \A f : Alive(f)' <=> \E j \in Issued' : /\ family'[j] = f
                                                 /\ j \notin revoked' \cup expired' \cup purged'
  BY DEF Alive, Live, Issued
<1>4. \A u \in Tabs : RefreshAt(u, "rotate") => refresh[u].token \in Issued
  BY DEF RefreshAt, RefreshTyped
<1>5. /\ Renewing(family[k])
      /\ \A f : f # family[k] => (Renewing(f)' <=> Renewing(f))
  BY <1>1, <1>4 DEF Renewing, RefreshAt
<1>. HIDE DEF k, n
<1>6. \A f : f = family[k] => Alive(f)'
  BY <1>1, <1>2, <1>3
<1>7. \A f : f # family[k] => (Alive(f)' <=> Alive(f))
  BY <1>1, <1>3
<1>8. ASSUME NEW f PROVE GoesOn(f)' <=> GoesOn(f)
  <2>1. CASE f = family[k]
    BY <1>5, <1>6, <2>1 DEF GoesOn
  <2>2. CASE f # family[k]
    BY <1>5, <1>7, <2>2 DEF GoesOn
  <2>. QED
    BY <2>1, <2>2
<1>. QED
  BY <1>8

\* So it renews the family and no more.
LEMMA RotateRenews ==
  ASSUME SessionsTyped, NEW t \in Tabs, Rotate(t)
  PROVE  [f \in Tokens |-> SessionState(f)]' = [f \in Tokens |-> SessionState(f)]
<1>1. /\ refresh[t].token \in Issued /\ Issued' = Issued \cup {issued + 1}
      /\ issued + 1 \notin Issued /\ family'[issued + 1] = family[refresh[t].token]
      /\ \A j \in Issued : family'[j] = family[j]
      /\ history' = history
  BY RotateFacts
<1>2. ASSUME NEW f \in Tokens PROVE SessionState(f)' = SessionState(f)
  <2>1. f \in {family'[j] : j \in Issued'} <=> f \in {family[j] : j \in Issued}
    BY <1>1
  <2>2. GoesOn(f)' <=> GoesOn(f)
    BY RotateGoesOn
  <2>. QED
    BY <1>1, <2>1, <2>2 DEF SessionState, Issued
<1>. QED
  BY <1>2

\* A sign-in lets the families there are go on as they did.
LEMMA IssueGoesOn ==
  ASSUME SessionsTyped, NEW t \in Tabs, IssueTokenPair(t), NEW n, n = issued + 1
  PROVE  Alive(n)' /\ \A f : f # n => (GoesOn(f)' <=> GoesOn(f))
<1>. USE DEF SessionsTyped
<1>1. /\ Issued' = Issued \cup {n} /\ n \notin Issued
      /\ family'[n] = n /\ \A j \in Issued : family'[j] = family[j]
      /\ revoked' = revoked /\ expired' = expired /\ purged' = purged
      /\ refresh' = refresh
  BY IssueFacts
<1>2. expired \subseteq Issued /\ purged \subseteq Issued /\ revoked \subseteq Issued
  BY DEF RowsTyped
<1>3. /\ \A f : Alive(f) <=> \E j \in Issued : /\ family[j] = f
                                               /\ j \notin revoked \cup expired \cup purged
      /\ \A f : Alive(f)' <=> \E j \in Issued' : /\ family'[j] = f
                                                 /\ j \notin revoked' \cup expired' \cup purged'
  BY DEF Alive, Live, Issued
<1>4. Alive(n)'
  BY <1>1, <1>2, <1>3
<1>5. \A f : f # n => (Alive(f)' <=> Alive(f))
  BY <1>1, <1>3
<1>6. \A f : Renewing(f)' <=> Renewing(f)
  <2>1. \A u \in Tabs : RefreshAt(u, "rotate") => refresh[u].token \in Issued
    BY DEF RefreshAt, RefreshTyped
  <2>. QED
    BY <1>1, <2>1 DEF Renewing, RefreshAt
<1>. QED
  BY <1>4, <1>5, <1>6 DEF GoesOn

\* A sign-in starts the family of its token.
LEMMA IssueStarts ==
  ASSUME SessionsTyped, NEW t \in Tabs, IssueTokenPair(t)
  PROVE  \E f \in Tokens : Lifecycle!Start(f)
<1>. USE DEF SessionsTyped
<1>. DEFINE s == [f \in Tokens |-> SessionState(f)]
<1>0. PICK n \in Tokens : n = issued + 1
  BY IssueFacts
<1>1. /\ Issued' = Issued \cup {n} /\ n \notin Issued /\ n \in Tokens
      /\ family'[n] = n /\ \A j \in Issued : family'[j] = family[j]
      /\ revoked' = revoked /\ expired' = expired /\ purged' = purged
      /\ \A f : f # n => (f \in history'.raced <=> f \in history.raced)
  <2>1. /\ Issued' = Issued \cup {n} /\ n \notin Issued /\ n \in Tokens
        /\ family'[n] = n /\ \A j \in Issued : family'[j] = family[j]
        /\ revoked' = revoked /\ expired' = expired /\ purged' = purged
        /\ history'.raced = history.raced \cup (IF op[t].pw = password THEN {} ELSE {n})
    BY <1>0, IssueFacts
  <2>. QED
    BY <2>1
<1>2. \A j \in Issued : family[j] \in Issued
  BY DEF RowsTyped
<1>3. Alive(n)' /\ \A f : f # n => (GoesOn(f)' <=> GoesOn(f))
  BY <1>0, IssueGoesOn
<1>4. SessionState(n) = "unborn"
  BY <1>1, <1>2, StateIs
<1>5. SessionState(n)' \in {"alive", "exempt"}
  <2>1. GoesOn(n)'
    BY <1>3 DEF GoesOn
  <2>2. n \in {family'[j] : j \in 1..issued'}
    BY <1>1 DEF Issued
  <2>. QED
    BY <2>1, <2>2 DEF SessionState
<1>6. ASSUME NEW f \in Tokens, f # n PROVE SessionState(f)' = SessionState(f)
  <2>1. f \in {family'[j] : j \in Issued'} <=> f \in {family[j] : j \in Issued}
    BY <1>1, <1>6
  <2>2. GoesOn(f)' <=> GoesOn(f)
    BY <1>3, <1>6
  <2>. QED
    BY <1>1, <1>6, <2>1, <2>2 DEF SessionState, Issued
<1>7. s' = [s EXCEPT ![n] = SessionState(n)'] /\ s[n] = "unborn"
  BY <1>1, <1>4, <1>6
<1>8. Lifecycle!Start(n)
  BY <1>5, <1>7 DEF Lifecycle!Start
<1>. QED
  BY <1>1, <1>8

\* Sessions implement the lifecycle of SessionLifecycle: a family that has
\* ended by sign-out, replay, revocation or expiry never comes back, unless two
\* requests used it at once.
THEOREM FamiliesStayEnded == Spec => ImplementsLifecycle
<1>. DEFINE s == [f \in Tokens |-> SessionState(f)]
<1>1. Init => Lifecycle!LifecycleInit
  <2>. SUFFICES ASSUME Init PROVE Lifecycle!LifecycleInit
    OBVIOUS
  <2>1. /\ issued = 1 /\ family = [k \in Tokens |-> k] /\ revoked \cup expired \cup purged = {}
        /\ history.raced = {} /\ 1..issued = {1} /\ 1 \in Tokens
    BY BoundsAreNat DEF Init, Tokens
  <2>2. Alive(1) /\ {family[k] : k \in 1..issued} = {1}
    BY <2>1 DEF Alive, Live
  <2>3. \A f \in Tokens : SessionState(f) \in {"unborn", "alive"}
    BY <2>1, <2>2 DEF SessionState, GoesOn
  <2>. QED
    BY <2>3 DEF Lifecycle!LifecycleInit
<1>2. SessionsTyped /\ FamiliesInv /\ [Next]_vars => [Lifecycle!LifecycleNext]_s
  <2>. SUFFICES ASSUME SessionsTyped, FamiliesInv, [Next]_vars
                PROVE  Lifecycle!LifecycleNext \/ s' = s
    OBVIOUS
  <2>1. CASE Revokes \/ \E t \in Tabs : ReadRow(t)
    BY <2>1, NothingRevives, FadesEnds DEF Revokes, Lifecycle!LifecycleNext
  <2>4. ASSUME NEW t \in Tabs, Rotate(t) PROVE s' = s
    BY <2>4, RotateRenews
  <2>5. ASSUME NEW t \in Tabs, IssueTokenPair(t) PROVE Lifecycle!LifecycleNext
    BY <2>5, IssueStarts DEF Lifecycle!LifecycleNext
  <2>. QED
    BY <2>1, <2>4, <2>5, StepKinds
<1>. QED
  BY <1>1, <1>2, FamiliesAlways, PTL DEF Spec, ImplementsLifecycle, Lifecycle!LifecycleSpec

-----------------------------------------------------------------------------
(* Replays *)

\* A refresh is refused straight away only by ReadRow, which finds no row or
\* one past its lifetime.
LEMMA RefusedByRead ==
  ASSUME SessionsTyped, [Next]_vars, NEW t \in Tabs, RefreshAt(t, "sent"),
         refresh'[t] # Nil, refresh'[t].step = "refused"
  PROVE  ReadRow(t)
<1>1. refresh \in [Tabs -> Refresh \cup {Nil}]
  BY DEF SessionsTyped, RefreshTyped
<1>2. refresh'[t] # refresh[t]
  BY DEF RefreshAt
<1>3. ASSUME NEW u \in Tabs, RefreshNext(u) PROVE ReadRow(t)
  <2>1. u = t
    <3>1. \/ refresh' = refresh \/ \E q : refresh' = [refresh EXCEPT ![u] = q]
      BY <1>3 DEF RefreshNext, FetchUnauthorized, SocketAuthError, Bootstrap, StartRefresh,
            Reload, ReadRow, RevokeFamily, Rotate, RefreshAnswered, RefreshRefused, RefreshLost,
            DebounceOver, RefreshGoto, Settle, PutRefresh
    <3>. QED
      BY <1>1, <1>2, <3>1
  <2>2. \/ ReadRow(t) \/ RefreshLost(t) \/ Reload(t)
    BY <1>3, <2>1
    DEF RefreshNext, FetchUnauthorized, SocketAuthError, Bootstrap, StartRefresh,
        RevokeFamily, Rotate, RefreshAnswered, RefreshRefused, DebounceOver, RefreshAt
  <2>3. ~Reload(t)
    BY DEF Reload, RefreshAt
  <2>4. RefreshLost(t) => refresh'[t].step = "settled"
    BY <1>1 DEF RefreshLost, Settle, PutRefresh
  <2>. QED
    BY <2>2, <2>3, <2>4
<1>4. ASSUME NEW u \in Tabs, Requests(u) \/ OpNext(u) PROVE FALSE
  <2>1. refresh' = refresh
    <3>1. CASE Requests(u)
      BY <3>1 DEF Requests, SendGuest, SendSignedIn, Send, ForgotPassword
    <3>2. CASE OpNext(u)
      <4>1. \/ UNCHANGED notOp
            \/ UNCHANGED <<rows, badAccess, password, resetKey, refresh, sent, faults, history>>
            \/ TakeResetKey(u) \/ UpdatePassword(u) \/ RevokeAll(u) \/ RevokeOne(u)
            \/ Blacklist(u) \/ IssueTokenPair(u) \/ ServerFails(u)
        BY <3>2, OpOnlyTypes, AnswerTypes DEF OpNext
      <4>. QED
        BY <4>1 DEF notOp, TakeResetKey, UpdatePassword, RevokeAll, RevokeOne, Blacklist,
                    IssueTokenPair, ServerFails
    <3>. QED
      BY <1>4, <3>1, <3>2
  <2>. QED
    BY <1>2, <2>1
<1>5. CASE \/ \E k \in Tokens : AccessExpires(k) \/ RefreshExpires(k)
           \/ \E S \in SUBSET Tokens : Cleanup(S)
           \/ UNCHANGED vars
  BY <1>2, <1>5 DEF AccessExpires, RefreshExpires, Cleanup, vars
<1>. QED
  BY <1>3, <1>4, <1>5 DEF Next

\* For any number of tabs and tokens, refreshTokens answers TOKEN_INVALID only
\* to a token past its lifetime or to no token: a replay before that is seen.
THEOREM ReplaysAreSeen == Spec => ReplayIsSeen
<1>1. ASSUME SessionsTyped, [Next]_vars, NEW t \in Tabs, RefreshAt(t, "sent"),
             refresh'[t] # Nil, refresh'[t].step = "refused"
      PROVE  refresh[t].token \in expired \cup {Nil}
  <2>. DEFINE k == refresh[t].token
  <2>1. ReadRow(t)
    BY <1>1, RefusedByRead
  <2>2. refresh \in [Tabs -> Refresh \cup {Nil}] /\ purged \subseteq expired
    BY <1>1 DEF SessionsTyped, RefreshTyped, RowsTyped
  <2>3. \/ k = Nil \/ k \in purged \cup expired
        \/ refresh' = [refresh EXCEPT ![t] = [by |-> refresh[t].by, step |-> "reuse", token |-> k]]
        \/ refresh' = [refresh EXCEPT ![t] = [by |-> refresh[t].by, step |-> "rotate", token |-> k]]
    BY <2>1 DEF ReadRow, RefreshGoto, PutRefresh
  <2>. QED
    BY <1>1, <2>2, <2>3
<1>2. SessionsTyped /\ [Next]_vars =>
         [\A t \in Tabs :
             RefreshAt(t, "sent") /\ refresh'[t] # Nil /\ refresh'[t].step = "refused"
                => refresh[t].token \in expired \cup {Nil}]_vars
  BY <1>1
<1>. QED
  BY <1>2, FamiliesAlways, PTL DEF Spec, ReplayIsSeen

-----------------------------------------------------------------------------
(* What a step does to the requests *)

\* A step concerns the request of one tab.
LEMMA OpLocal ==
  ASSUME SessionsTyped, [Next]_vars, NEW t \in Tabs
  PROVE  \/ op'[t] = op[t]
         \/ OpNext(t)
         \/ \E kind \in OpKinds, key \in Resets \cup {Nil} : Send(t, kind, key)
<1>1. op \in [Tabs -> Op \cup {Nil}]
  BY DEF SessionsTyped, OpTyped
<1>2. CASE op' = op
  BY <1>2
<1>3. ASSUME NEW u \in Tabs, u # t, OpNext(u) PROVE op'[t] = op[t]
  <2>1. \E q : op' = [op EXCEPT ![u] = q]
    <3>1. CASE GuardRefuses(u) \/ OpRefused(u) \/ LoginRoute(u) \/ ResetRoute(u) \/ ChangeRoute(u)
                 \/ LogoutAllRoute(u) \/ LoginVerify(u) \/ ChangeVerify(u) \/ LoginClearsStale(u)
      BY <3>1 DEF GuardRefuses, OpRefused, LoginRoute, ResetRoute, ChangeRoute, LogoutAllRoute,
                  LoginVerify, ChangeVerify, LoginClearsStale, Step, OpGoto, OpRefuse, OpEnd, PutOp
    <3>2. CASE TakeResetKey(u) \/ UpdatePassword(u) \/ RevokeAll(u) \/ RevokeOne(u)
                 \/ Blacklist(u) \/ IssueTokenPair(u) \/ ServerFails(u)
      BY <3>2 DEF TakeResetKey, UpdatePassword, RevokeAll, RevokeOne, Blacklist, IssueTokenPair,
                  ServerFails, OpGoto, OpRefuse, OpEnd, PutOp
    <3>3. CASE LoginAnswered(u) \/ ResetAnswered(u) \/ PasswordChanged(u) \/ LoggedOut(u)
                 \/ LoggedOutAll(u) \/ LoginRetries(u)
      BY <3>3 DEF LoginAnswered, ResetAnswered, SignedIn, PasswordChanged, LoggedOut,
                  LoggedOutAll, LoginRetries, OpEnd, PutOp
    <3>. QED
      BY <1>3, <3>1, <3>2, <3>3 DEF OpNext
  <2>. QED
    BY <1>1, <1>3, <2>1
<1>4. ASSUME NEW u \in Tabs, Requests(u)
      PROVE  \/ op' = op
             \/ \E kind \in OpKinds, key \in Resets \cup {Nil} : Send(u, kind, key)
  BY <1>4 DEF Requests, SendGuest, SendSignedIn, ForgotPassword, OpKinds
<1>5. ASSUME NEW u \in Tabs, u # t, NEW kind, NEW key, Send(u, kind, key) PROVE op'[t] = op[t]
  BY <1>1, <1>5 DEF Send, PutOp
<1>6. ASSUME NEW u \in Tabs, RefreshNext(u) PROVE op' = op
  BY <1>6 DEF RefreshNext, FetchUnauthorized, SocketAuthError, Bootstrap, StartRefresh, Reload,
         ReadRow, RevokeFamily, Rotate, RefreshAnswered, RefreshRefused, RefreshLost, DebounceOver
<1>7. CASE \/ \E k \in Tokens : AccessExpires(k) \/ RefreshExpires(k)
           \/ \E S \in SUBSET Tokens : Cleanup(S)
           \/ UNCHANGED vars
  BY <1>7 DEF AccessExpires, RefreshExpires, Cleanup, vars
<1>. QED
  BY <1>2, <1>3, <1>4, <1>5, <1>6, <1>7 DEF Next

\* Where the steps of a request take it.
LEMMA OpResults ==
  ASSUME SessionsTyped, NEW t \in Tabs
  PROVE  /\ \A kind, key : Send(t, kind, key) => op'[t].step = "guard"
         /\ GuardRefuses(t) => op'[t].step = "refused"
         /\ LoginRoute(t) \/ ResetRoute(t) \/ ChangeRoute(t) => op'[t].step = "verify"
         /\ LogoutAllRoute(t) => op'[t].step = "revoke"
         /\ LoginVerify(t) => op'[t].step = "issue"
         /\ ChangeVerify(t) => op'[t].kind = "change"
         /\ UpdatePassword(t) => op'[t].step = "revoke" /\ op'[t].kind = op[t].kind
         /\ RevokeAll(t) => /\ op'[t].step \in {"issue", "blacklist"}
                            /\ op[t].kind # "logout" /\ op'[t].kind = op[t].kind
         /\ IssueTokenPair(t) => op[t].kind # "logout" /\ op'[t].kind = op[t].kind
                                   /\ op'[t].step = "answer"
         /\ LoginClearsStale(t) \/ LoginRetries(t) => op'[t].step = "guard"
         /\ TakeResetKey(t) => op'[t].kind = "reset"
         /\ RevokeOne(t) \/ Blacklist(t) => op'[t].step \in {"issue", "blacklist", "answer"}
<1>1. op \in [Tabs -> Op \cup {Nil}]
  BY DEF SessionsTyped, OpTyped
<1>2. /\ \A kind, key : Send(t, kind, key) => op'[t].step = "guard"
      /\ GuardRefuses(t) => op'[t].step = "refused"
  BY <1>1 DEF Send, GuardRefuses, OpRefuse, PutOp
<1>3. /\ LoginRoute(t) \/ ResetRoute(t) \/ ChangeRoute(t) => op'[t].step = "verify"
      /\ LogoutAllRoute(t) => op'[t].step = "revoke"
  BY <1>1 DEF LoginRoute, ResetRoute, ChangeRoute, LogoutAllRoute, Step, OpGoto, PutOp
<1>4. /\ LoginVerify(t) => op'[t].step = "issue"
      /\ ChangeVerify(t) => op'[t].kind = "change"
  BY <1>1 DEF LoginVerify, ChangeVerify, OpGoto, PutOp, OpAt
<1>5. /\ UpdatePassword(t) => op'[t].step = "revoke" /\ op'[t].kind = op[t].kind
      /\ RevokeAll(t) => /\ op'[t].step \in {"issue", "blacklist"}
                         /\ op[t].kind # "logout" /\ op'[t].kind = op[t].kind
  BY <1>1 DEF UpdatePassword, RevokeAll, OpGoto, PutOp
<1>6. IssueTokenPair(t) => op[t].kind # "logout" /\ op'[t].kind = op[t].kind
                             /\ op'[t].step = "answer"
  BY <1>1 DEF IssueTokenPair, OpGoto, PutOp, SessionsTyped, OpTyped
<1>7. LoginClearsStale(t) \/ LoginRetries(t) => op'[t].step = "guard"
  BY <1>1 DEF LoginClearsStale, LoginRetries, PutOp
<1>8. TakeResetKey(t) => op'[t].kind = "reset"
  BY <1>1 DEF TakeResetKey, OpGoto, OpRefuse, PutOp, OpAt
<1>9. RevokeOne(t) \/ Blacklist(t) => op'[t].step \in {"issue", "blacklist", "answer"}
  BY <1>1 DEF RevokeOne, Blacklist, OpGoto, PutOp
<1>. QED
  BY <1>2, <1>3, <1>4, <1>5, <1>6, <1>7, <1>8, <1>9

\* A request that ends leaves its slot.
LEMMA OpEnds ==
  ASSUME SessionsTyped, NEW t \in Tabs,
         \/ LoginAnswered(t) \/ ResetAnswered(t) \/ PasswordChanged(t) \/ LoggedOut(t)
         \/ LoggedOutAll(t) \/ OpRefused(t) \/ ServerFails(t)
  PROVE  op'[t] = Nil
BY DEF LoginAnswered, ResetAnswered, SignedIn, PasswordChanged, LoggedOut, LoggedOutAll,
       OpRefused, ServerFails, OpEnd, SessionsTyped, OpTyped

\* A sign-out that has revoked its token comes from RevokeOne or Blacklist.
LEMMA SignOutMoves ==
  ASSUME SessionsTyped, [Next]_vars, NEW t \in Tabs, op'[t] # Nil, op'[t].kind = "logout",
         op'[t].step \in {"blacklist", "answer"}
  PROVE  op'[t] = op[t] \/ RevokeOne(t) \/ Blacklist(t)
BY OpLocal, OpResults, OpEnds DEF OpNext

-----------------------------------------------------------------------------
(* Sign-out *)

\* A family that is exempt or dead stays so, whatever the step.
LEMMA DeadStays ==
  ASSUME SessionsTyped, FamiliesInv, [Next]_vars, NEW f \in Issued,
         f \in history.raced \/ ~GoesOn(f)
  PROVE  f \in history'.raced \/ ~GoesOn(f)'
<1>1. CASE Revokes \/ \E t \in Tabs : ReadRow(t)
  <2>1. Fades /\ (GoesOn(f)' => GoesOn(f))
    BY <1>1, NothingRevives DEF Revokes
  <2>. QED
    BY <2>1 DEF Fades
<1>4. ASSUME NEW t \in Tabs, Rotate(t) PROVE f \in history'.raced \/ ~GoesOn(f)'
  BY <1>4, RotateGoesOn, RotateFacts
<1>5. ASSUME NEW t \in Tabs, IssueTokenPair(t) PROVE f \in history'.raced \/ ~GoesOn(f)'
  <2>1. issued + 1 \notin Issued /\ history.raced \subseteq history'.raced
    BY <1>5, IssueFacts
  <2>2. GoesOn(f)' <=> GoesOn(f)
    BY <1>5, <2>1, IssueGoesOn
  <2>. QED
    BY <2>1, <2>2
<1>. QED
  BY <1>1, <1>4, <1>5, StepKinds

\* Rows keep their family.
LEMMA FamilyStays ==
  ASSUME SessionsTyped, FamiliesInv, [Next]_vars, NEW k \in Issued
  PROVE  family'[k] = family[k] /\ family[k] \in Issued
<1>1. family[k] \in Issued
  BY DEF SessionsTyped, RowsTyped
<1>2. Revokes => family' = family
  BY DEF Revokes, Withers, Fades
<1>3. ASSUME NEW t \in Tabs, ReadRow(t) PROVE family' = family
  BY <1>3, ReadRowKeeps DEF rows
<1>4. ASSUME NEW t \in Tabs, Rotate(t) \/ IssueTokenPair(t) PROVE family'[k] = family[k]
  BY <1>4, RotateFacts, IssueFacts
<1>. QED
  BY <1>1, <1>2, <1>3, <1>4, StepKinds

\* RevokeOne kills the family of its token, unless it is exempt: the token had
\* been replaced, or was the one that is not revoked and no refresh has it.
LEMMA RevokeOneKills ==
  ASSUME SessionsTyped, FamiliesInv, NEW t \in Tabs, RevokeOne(t), op[t].token # Nil,
         NEW k, k = op[t].token, NEW f, f = family[k]
  PROVE  f \in history'.raced \/ ~GoesOn(f)'
<1>. USE DEF SessionsTyped
<1>0. k = op[t].token
  OBVIOUS
<1>1. f = family[k]
  OBVIOUS
<1>. DEFINE raced == IF k \in revoked THEN FamilyOf(k) ELSE InRefresh(FamilyOf(k))
<1>2. /\ UNCHANGED <<issued, family, expired, purged, born>>
      /\ revoked' = IF k \in purged THEN revoked ELSE revoked \cup {k}
      /\ RecordRaced(raced)
  BY <1>0 DEF RevokeOne
<1>3. k \in Issued /\ k # Nil
  BY <1>0, OpParts DEF RevokeOne, OpAt, IssuedOrNil
<1>4. raced \subseteq Tokens
  BY <1>3, IssuedTokens DEF FamilyOf, InRefresh, RowsTyped
<1>5. history'.raced = history.raced \cup raced
  BY <1>2, <1>4, RecordRacedFacts DEF RestTyped
<1>6. CASE k \in revoked
  BY <1>0, <1>1, <1>3, <1>5, <1>6 DEF FamilyOf
<1>7. CASE k \notin revoked
  <2>1. \A j \in Issued : family[j] = f /\ j \notin revoked => j = k \/ f \in history.raced
    BY <1>1, <1>3, <1>7 DEF FamiliesInv, OneUnrevoked
  <2>2. f \in history.raced \/ ~Alive(f)'
    BY <1>2, <2>1 DEF Alive, Live, Issued
  <2>3. f \in history'.raced \/ ~Renewing(f)'
    <3>1. refresh' = refresh /\ family' = family
      BY DEF RevokeOne
    <3>2. Renewing(f) => f \in InRefresh(FamilyOf(k))
      BY <1>1, <1>3 DEF Renewing, RefreshAt, InRefresh, Refreshing, FamilyOf
    <3>. QED
      BY <1>5, <1>7, <3>1, <3>2 DEF Renewing, RefreshAt
  <2>. QED
    BY <1>5, <2>2, <2>3 DEF GoesOn
<1>. QED
  BY <1>6, <1>7

LEMMA SignedOutStep ==
  ASSUME SessionsTyped, FamiliesInv, SignedOutDead, [Next]_vars
  PROVE  SignedOutDead'
<1>1. SUFFICES ASSUME NEW t \in Tabs, op'[t] # Nil, op'[t].kind = "logout",
                      op'[t].step \in {"blacklist", "answer"}, op'[t].token # Nil
               PROVE  family'[op'[t].token] \in history'.raced \/ ~GoesOn(family[op[t].token])'
  BY DEF SignedOutDead
<1>. PICK k : k = op'[t].token
  OBVIOUS
<1>2. ASSUME op[t] # Nil, op[t].token = k, op[t].kind = "logout",
             op[t].step \in {"blacklist", "answer"}
      PROVE  family'[k] \in history'.raced \/ ~GoesOn(family[op[t].token])'
  <2>1. k \in Issued
    BY <1>1, <1>2, OpParts DEF SessionsTyped, IssuedOrNil
  <2>2. PICK f : f = family[k]
    OBVIOUS
  <2>3. f \in history.raced \/ ~GoesOn(f)
    BY <1>1, <1>2, <2>2 DEF SignedOutDead
  <2>4. f \in Issued /\ family'[k] = f
    BY <2>1, <2>2, FamilyStays
  <2>5. f \in history'.raced \/ ~GoesOn(f)'
    BY <2>3, <2>4, DeadStays
  <2>6. f = family'[op'[t].token]
    BY <2>4
  <2>. QED
    BY <2>4, <2>5, <2>6
<1>3. CASE op'[t] = op[t]
  BY <1>1, <1>2, <1>3
<1>4. CASE Blacklist(t)
  <2>1. /\ op[t] # Nil /\ op[t].step = "blacklist"
        /\ op'[t].kind = op[t].kind /\ op'[t].token = op[t].token
    BY <1>4 DEF Blacklist, PutOp, SessionsTyped, OpTyped
  <2>. QED
    BY <1>1, <1>2, <2>1
<1>5. CASE RevokeOne(t)
  <2>1. op'[t].token = op[t].token /\ family' = family
    BY <1>5 DEF RevokeOne, OpGoto, PutOp, SessionsTyped, OpTyped
  <2>2. PICK f : f = family[op[t].token]
    OBVIOUS
  <2>3. f \in history'.raced \/ ~GoesOn(f)'
    BY <1>1, <1>5, <2>1, <2>2, RevokeOneKills
  <2>4. f = family'[op'[t].token]
    BY <2>1, <2>2
  <2>. QED
    BY <2>3, <2>4
<1>. QED
  BY <1>1, <1>3, <1>4, <1>5, SignOutMoves

LEMMA SignedOutAlways == Spec => [](SessionsTyped /\ FamiliesInv /\ SignedOutDead)
<1>1. Init => SessionsTyped /\ FamiliesInv /\ SignedOutDead
  BY InitTypes, InitFamilies DEF Init, SignedOutDead
<1>2. SessionsTyped /\ FamiliesInv /\ SignedOutDead /\ [Next]_vars
         => (SessionsTyped /\ FamiliesInv /\ SignedOutDead)'
  BY NextTypes, FamiliesStep, SignedOutStep
<1>. QED
  BY <1>1, <1>2, PTL DEF Spec

\* For any number of tabs, browsers and tokens: when a tab learns that it is
\* signed out, no token of that sign-in is usable, unless two requests used
\* the family at once.
THEOREM SignOutIsFinal == Spec => SignOutEnds
<1>1. ASSUME SessionsTyped, FamiliesInv, SignedOutDead, [Next]_vars, NEW t \in Tabs,
             OpAt(t, "logout", "answer"), NEW f \in FamilyOf(op[t].token), GoesOn(f)'
      PROVE  f \in history'.raced
  <2>1. op[t].token \in Issued /\ f = family[op[t].token]
    BY <1>1, OpParts DEF SessionsTyped, OpAt, FamilyOf, IssuedOrNil
  <2>2. f \in Issued
    BY <1>1, <2>1 DEF SessionsTyped, RowsTyped
  <2>3. f \in history.raced \/ ~GoesOn(f)
    <3>1. op[t].token # Nil
      BY <1>1, <2>1, IssuedTokens DEF SessionsTyped
    <3>. QED
      BY <1>1, <2>1, <3>1 DEF SignedOutDead, OpAt
  <2>. QED
    BY <1>1, <2>2, <2>3, DeadStays
<1>2. SessionsTyped /\ FamiliesInv /\ SignedOutDead /\ [Next]_vars =>
         [\A t \in Tabs : OpAt(t, "logout", "answer") /\ op'[t] = Nil =>
             \A f \in FamilyOf(op[t].token) : GoesOn(f)' => f \in history'.raced]_vars
  BY <1>1
<1>. QED
  BY <1>2, SignedOutAlways, PTL DEF Spec, SignOutEnds

-----------------------------------------------------------------------------
(* Password changes and reset links *)

\* A request about to set the password by a link has just taken the link.
LEMMA ResetMoves ==
  ASSUME SessionsTyped, [Next]_vars, NEW t \in Tabs, op'[t] # Nil, op'[t].kind = "reset",
         op'[t].step = "update"
  PROVE  op'[t] = op[t] \/ TakeResetKey(t)
BY OpLocal, OpResults, OpEnds DEF OpNext

\* A password change that has not revoked yet goes on to RevokeAll, or fails.
LEMMA RevokeMoves ==
  ASSUME SessionsTyped, [Next]_vars, NEW t \in Tabs, op[t] # Nil, op[t].step = "revoke",
         op[t].kind \in {"change", "reset"}
  PROVE  op'[t] = op[t] \/ RevokeAll(t) \/ ServerFails(t)
<1>1. ~\E kind, key : Send(t, kind, key)
  BY DEF Send
<1>2. OpNext(t) => RevokeAll(t) \/ ServerFails(t)
  BY DEF OpNext, GuardRefuses, LoginRoute, ResetRoute, ChangeRoute, LogoutAllRoute, LoginVerify,
     ChangeVerify, TakeResetKey, UpdatePassword, RevokeOne, Blacklist, IssueTokenPair,
     LoginAnswered, ResetAnswered, SignedIn, PasswordChanged, LoggedOut, LoggedOutAll,
     LoginClearsStale, LoginRetries, OpRefused, OpAt
<1>. QED
  BY <1>1, <1>2, OpLocal

\* What a step does to the password, the links and the counts of resets.
LEMMA PasswordLocal ==
  ASSUME SessionsTyped, [Next]_vars
  PROVE  \/ UNCHANGED <<password, resetKey>> /\ history'.resets = history.resets
         \/ \E t \in Tabs : \/ UpdatePassword(t) \/ TakeResetKey(t)
                            \/ \E r \in Resets : ForgotPassword(t, r)
<1>. DEFINE Same == UNCHANGED <<password, resetKey>> /\ history'.resets = history.resets
<1>1. \A F : RecordRaced(F) => history'.resets = history.resets
  BY DEF RecordRaced, Record
<1>2. ASSUME NEW t \in Tabs, RefreshNext(t) PROVE Same
  <2>1. UNCHANGED <<password, resetKey>> /\ (history' = history \/ \E F : RecordRaced(F))
    BY <1>2 DEF RefreshNext, FetchUnauthorized, SocketAuthError, Bootstrap, StartRefresh, Reload,
           ReadRow, RevokeFamily, Rotate, RefreshAnswered, RefreshRefused, RefreshLost,
           DebounceOver
  <2>. QED
    BY <1>1, <2>1
<1>3. ASSUME NEW t \in Tabs, Requests(t)
      PROVE  Same \/ \E r \in Resets : ForgotPassword(t, r)
  BY <1>3 DEF Requests, SendGuest, SendSignedIn, Send
<1>4. ASSUME NEW t \in Tabs, OpNext(t) PROVE Same \/ UpdatePassword(t) \/ TakeResetKey(t)
  <2>1. \/ UNCHANGED notOp
        \/ UNCHANGED <<rows, badAccess, password, resetKey, refresh, sent, faults, history>>
        \/ TakeResetKey(t) \/ UpdatePassword(t) \/ RevokeAll(t) \/ RevokeOne(t)
        \/ Blacklist(t) \/ IssueTokenPair(t) \/ ServerFails(t)
    BY <1>4, OpOnlyTypes, AnswerTypes DEF OpNext
  <2>2. UNCHANGED notOp \/ Blacklist(t) => Same
    BY DEF notOp, Blacklist
  <2>3. RevokeAll(t) \/ RevokeOne(t) \/ IssueTokenPair(t) => Same
    BY <1>1 DEF RevokeAll, RevokeOne, IssueTokenPair
  <2>4. ServerFails(t) => Same
    BY DEF ServerFails, Record
  <2>. QED
    BY <2>1, <2>2, <2>3, <2>4
<1>5. CASE \/ \E k \in Tokens : AccessExpires(k) \/ RefreshExpires(k)
           \/ \E S \in SUBSET Tokens : Cleanup(S)
           \/ UNCHANGED vars
  BY <1>5 DEF AccessExpires, RefreshExpires, Cleanup, vars
<1>. QED
  BY <1>2, <1>3, <1>4, <1>5 DEF Next

LEMMA ResetsStep ==
  ASSUME SessionsTyped, ResetsSpent, [Next]_vars
  PROVE  ResetsSpent'
<1>. USE DEF SessionsTyped
<1>1. /\ op \in [Tabs -> Op \cup {Nil}] /\ resetKey \in [Resets -> {"unsent", "stored", "spent"}]
      /\ history \in History /\ history.resets \in [Resets -> Nat] /\ history.torn \in BOOLEAN
  BY HistoryParts DEF OpTyped, RestTyped
<1>2. ASSUME NEW t \in Tabs, NEW r \in Resets, Resetting(t, r)'
      PROVE  Resetting(t, r) \/ TakeResetKey(t)
  BY <1>2, ResetMoves DEF Resetting
<1>3. CASE /\ UNCHANGED <<password, resetKey>> /\ history'.resets = history.resets
           /\ \A t \in Tabs : ~TakeResetKey(t)
  BY <1>2, <1>3 DEF ResetsSpent
<1>4. ASSUME NEW t \in Tabs, NEW r \in Resets, ForgotPassword(t, r) PROVE ResetsSpent'
  <2>1. resetKey[r] = "unsent" /\ op' = op /\ history' = history
        /\ \A s \in Resets \ {r} : resetKey'[s] = resetKey[s]
    BY <1>1, <1>4 DEF ForgotPassword
  <2>2. history.resets[r] # 1 /\ \A u \in Tabs : ~Resetting(u, r)
    BY <2>1 DEF ResetsSpent
  <2>3. \A u \in Tabs, s \in Resets : Resetting(u, s)' <=> Resetting(u, s)
    BY <2>1 DEF Resetting
  <2>. QED
    BY <2>1, <2>2, <2>3 DEF ResetsSpent
<1>5. ASSUME NEW t \in Tabs, TakeResetKey(t) PROVE ResetsSpent'
  <2>. PICK r : r = op[t].key
    OBVIOUS
  <2>1. r \in Resets /\ op[t].step = "verify" /\ history' = history
    BY <1>5 DEF TakeResetKey, OpAt, OpTyped
  <2>2. \A u \in Tabs \ {t} : op'[u] = op[u]
    BY <1>1, <1>5 DEF TakeResetKey, OpGoto, OpRefuse, PutOp
  <2>3. CASE resetKey[r] = "stored"
    <3>1. /\ op'[t].key = r /\ resetKey'[r] = "spent"
          /\ \A s \in Resets \ {r} : resetKey'[s] = resetKey[s]
      BY <1>1, <1>5, <2>1, <2>3 DEF TakeResetKey, OpGoto, PutOp
    <3>2. history.resets[r] = 0 /\ \A u \in Tabs : ~Resetting(u, r)
      BY <2>1, <2>3 DEF ResetsSpent
    <3>3. \A u \in Tabs \ {t}, s \in Resets : Resetting(u, s)' <=> Resetting(u, s)
      BY <2>2 DEF Resetting
    <3>4. \A s \in Resets : Resetting(t, s)' => s = r
      BY <3>1 DEF Resetting
    <3>. QED
      BY <2>1, <3>1, <3>2, <3>3, <3>4 DEF ResetsSpent
  <2>4. CASE resetKey[r] # "stored"
    <3>1. op'[t].step = "refused" /\ resetKey' = resetKey
      BY <1>1, <1>5, <2>1, <2>4 DEF TakeResetKey, OpRefuse, PutOp
    <3>2. \A u \in Tabs, s \in Resets : Resetting(u, s)' => Resetting(u, s)
      BY <2>2, <3>1 DEF Resetting
    <3>. QED
      BY <2>1, <3>1, <3>2 DEF ResetsSpent
  <2>. QED
    BY <2>3, <2>4
<1>6. ASSUME NEW t \in Tabs, UpdatePassword(t) PROVE ResetsSpent'
  <2>1. resetKey' = resetKey /\ op'[t].step = "revoke" /\ \A u \in Tabs \ {t} : op'[u] = op[u]
    BY <1>1, <1>6 DEF UpdatePassword, PutOp
  <2>2. \A u \in Tabs, s \in Resets : Resetting(u, s)' => u # t /\ Resetting(u, s)
    BY <2>1 DEF Resetting
  <2>3. CASE op[t].kind = "reset"
    <3>. PICK r : r = op[t].key
      OBVIOUS
    <3>1. r \in Resets /\ Resetting(t, r)
      BY <1>6, <2>3 DEF UpdatePassword, OpTyped, Resetting
    <3>2. history'.resets = [history.resets EXCEPT ![r] = @ + 1]
      BY <1>6, <2>3 DEF UpdatePassword, Record
    <3>3. history'.resets[r] = history.resets[r] + 1
          /\ \A s \in Resets \ {r} : history'.resets[s] = history.resets[s]
      BY <1>1, <3>1, <3>2
    <3>4. history.resets[r] = 0 /\ resetKey[r] = "spent" /\ \A u \in Tabs \ {t} : ~Resetting(u, r)
      BY <3>1 DEF ResetsSpent
    <3>. QED
      BY <2>1, <2>2, <3>1, <3>3, <3>4 DEF ResetsSpent
  <2>4. CASE op[t].kind # "reset"
    <3>1. history'.resets = history.resets
      BY <1>6, <2>4 DEF UpdatePassword, Record
    <3>. QED
      BY <2>1, <2>2, <3>1 DEF ResetsSpent
  <2>. QED
    BY <2>3, <2>4
<1>. QED
  BY <1>3, <1>4, <1>5, <1>6, PasswordLocal

\* A change of password that stopped half way is never forgotten.
LEMMA TornStays ==
  ASSUME SessionsTyped, [Next]_vars, history.torn
  PROVE  history'.torn
<1>1. \A F : RecordRaced(F) => history'.torn = history.torn
  BY DEF RecordRaced, Record
<1>2. ASSUME NEW t \in Tabs, RefreshNext(t) PROVE history'.torn
  <2>1. history' = history \/ \E F : RecordRaced(F)
    BY <1>2 DEF RefreshNext, FetchUnauthorized, SocketAuthError, Bootstrap, StartRefresh, Reload,
           ReadRow, RevokeFamily, Rotate, RefreshAnswered, RefreshRefused, RefreshLost,
           DebounceOver
  <2>. QED
    BY <1>1, <2>1
<1>3. ASSUME NEW t \in Tabs, Requests(t) PROVE history'.torn
  BY <1>3 DEF Requests, SendGuest, SendSignedIn, Send, ForgotPassword
<1>4. ASSUME NEW t \in Tabs, OpNext(t) PROVE history'.torn
  <2>1. \/ UNCHANGED notOp
        \/ UNCHANGED <<rows, badAccess, password, resetKey, refresh, sent, faults, history>>
        \/ TakeResetKey(t) \/ UpdatePassword(t) \/ RevokeAll(t) \/ RevokeOne(t)
        \/ Blacklist(t) \/ IssueTokenPair(t) \/ ServerFails(t)
    BY <1>4, OpOnlyTypes, AnswerTypes DEF OpNext
  <2>2. UNCHANGED notOp \/ TakeResetKey(t) \/ Blacklist(t) => history' = history
    BY DEF notOp, TakeResetKey, Blacklist
  <2>3. RevokeAll(t) \/ RevokeOne(t) \/ IssueTokenPair(t) => \E F : RecordRaced(F)
    BY DEF RevokeAll, RevokeOne, IssueTokenPair
  <2>4. UpdatePassword(t) \/ ServerFails(t) => history'.torn
    BY DEF UpdatePassword, ServerFails, Record
  <2>. QED
    BY <1>1, <2>1, <2>2, <2>3, <2>4
<1>5. CASE \/ \E k \in Tokens : AccessExpires(k) \/ RefreshExpires(k)
           \/ \E S \in SUBSET Tokens : Cleanup(S)
           \/ UNCHANGED vars
  BY <1>5 DEF AccessExpires, RefreshExpires, Cleanup, vars
<1>. QED
  BY <1>2, <1>3, <1>4, <1>5 DEF Next

\* A change of password between its update and its revocation.
Revoking(t) == op[t] # Nil /\ op[t].step = "revoke" /\ op[t].kind \in {"change", "reset"}

\* The sessions of an earlier password that are alive were used by two
\* requests at once.
NoOldSessions == \A f \in Issued : GoesOn(f) /\ f \notin history.raced => born[f] = password

LEMMA PasswordParts ==
  PasswordEndsSessions <=> history.torn \/ (\E t \in Tabs : Revoking(t)) \/ NoOldSessions
BY DEF PasswordEndsSessions, Revoking, NoOldSessions, Issued

\* After the revocation no session goes on but those a refresh had in hand.
LEMMA RevokeAllKills ==
  ASSUME SessionsTyped, NEW t \in Tabs, RevokeAll(t)
  PROVE  NoOldSessions'
<1>1. /\ Issued' = Issued /\ UNCHANGED <<family, purged>>
      /\ \A k \in Issued : family[k] \in Tokens /\ k \notin purged => k \in revoked'
  BY RevokeFamiliesFacts DEF RevokeAll, SessionsTyped
<1>2. \A k \in Issued : family[k] \in Tokens
  BY IssuedTokens DEF SessionsTyped, RowsTyped
<1>3. \A f : ~Alive(f)'
  BY <1>1, <1>2 DEF Alive, Live, Issued
<1>4. \A f \in Tokens : Renewing(f)' => f \in history'.raced
  <2>1. refresh' = refresh /\ RecordRaced(InRefresh(Tokens))
    BY DEF RevokeAll
  <2>2. history'.raced = history.raced \cup InRefresh(Tokens)
    BY <2>1, RecordRacedFacts DEF InRefresh, SessionsTyped, RestTyped
  <2>3. \A f \in Tokens : Renewing(f)' => f \in InRefresh(Tokens)
    BY <1>1, <2>1 DEF Renewing, RefreshAt, InRefresh, Refreshing
  <2>. QED
    BY <2>2, <2>3
<1>5. Issued' \subseteq Tokens
  BY <1>1, IssuedTokens DEF SessionsTyped
<1>. QED
  BY <1>3, <1>4, <1>5 DEF NoOldSessions, GoesOn

\* While the password stays, no session of another password comes to life.
LEMMA OldSessionsStep ==
  ASSUME SessionsTyped, FamiliesInv, NoOldSessions, [Next]_vars, password' = password
  PROVE  NoOldSessions'
<1>. USE DEF SessionsTyped
<1>1. CASE Revokes \/ \E t \in Tabs : ReadRow(t)
  <2>1. Fades /\ \A f : GoesOn(f)' => GoesOn(f)
    BY <1>1, NothingRevives DEF Revokes
  <2>2. history.raced \subseteq history'.raced /\ born' = born /\ Issued' = Issued
    BY <2>1 DEF Fades, Issued
  <2>. QED
    BY <2>1, <2>2 DEF NoOldSessions
<1>4. ASSUME NEW t \in Tabs, Rotate(t) PROVE NoOldSessions'
  <2>1. /\ Issued' = Issued \cup {issued + 1} /\ issued + 1 \notin Issued
        /\ history' = history /\ \A f \in Issued : born'[f] = born[f]
    BY <1>4, RotateFacts
  <2>2. \A f : GoesOn(f)' <=> GoesOn(f)
    BY <1>4, RotateGoesOn
  <2>3. \A f : GoesOn(f) => f \in Issued
    BY DEF GoesOn, Alive, Renewing, RefreshAt, Issued, RowsTyped, RefreshTyped
  <2>. QED
    BY <2>1, <2>2, <2>3 DEF NoOldSessions
<1>5. ASSUME NEW t \in Tabs, IssueTokenPair(t) PROVE NoOldSessions'
  <2>1. PICK n : n = issued + 1
    OBVIOUS
  <2>2. /\ Issued' = Issued \cup {n} /\ n \notin Issued
        /\ history'.raced = history.raced \cup (IF op[t].pw = password THEN {} ELSE {n})
        /\ born'[n] = op[t].pw /\ \A j \in Issued : born'[j] = born[j]
    BY <1>5, <2>1, IssueFacts
  <2>3. \A f \in Issued : GoesOn(f)' => GoesOn(f)
    BY <1>5, <2>1, <2>2, IssueGoesOn
  <2>. QED
    BY <2>2, <2>3 DEF NoOldSessions
<1>. QED
  BY <1>1, <1>4, <1>5, StepKinds

LEMMA PasswordStep ==
  ASSUME SessionsTyped, FamiliesInv, PasswordEndsSessions, [Next]_vars
  PROVE  PasswordEndsSessions'
<1>1. CASE history.torn
  BY <1>1, TornStays DEF PasswordEndsSessions
<1>2. ASSUME NEW t \in Tabs, Revoking(t) PROVE PasswordEndsSessions'
  <2>1. op'[t] = op[t] \/ RevokeAll(t) \/ ServerFails(t)
    BY <1>2, RevokeMoves DEF Revoking
  <2>2. CASE op'[t] = op[t]
    BY <1>2, <2>2 DEF Revoking, PasswordEndsSessions
  <2>3. CASE RevokeAll(t)
    BY <2>3, RevokeAllKills, PasswordParts DEF PasswordEndsSessions, NoOldSessions, Issued
  <2>4. CASE ServerFails(t)
    BY <2>4 DEF ServerFails, Record, PasswordEndsSessions
  <2>. QED
    BY <2>1, <2>2, <2>3, <2>4
<1>3. CASE NoOldSessions
  <2>1. CASE password' = password
    BY <1>3, <2>1, OldSessionsStep DEF PasswordEndsSessions, NoOldSessions, Issued
  <2>2. ASSUME NEW t \in Tabs, UpdatePassword(t) PROVE PasswordEndsSessions'
    <3>1. op[t] # Nil /\ op[t].kind \in {"change", "reset"}
      BY <2>2 DEF UpdatePassword, SessionsTyped, OpTyped
    <3>2. op'[t].step = "revoke" /\ op'[t].kind = op[t].kind
      BY <2>2, OpResults
    <3>3. op'[t] # Nil
      <4>. DEFINE q == [kind |-> op[t].kind, step |-> "revoke", token |-> Nil,
                        jti |-> op[t].jti, pw |-> password + 1, key |-> Nil]
      <4>1. op' = [op EXCEPT ![t] = q] /\ password < MaxPassword
        BY <2>2 DEF UpdatePassword, PutOp
      <4>2. password + 1 \in 0..MaxPassword
        BY <4>1, BoundsAreNat DEF SessionsTyped, RestTyped
      <4>3. op[t].kind \in OpKinds /\ op[t].jti \in TokenOrNil
        BY <3>1, OpParts DEF SessionsTyped
      <4>4. q \in Op
        BY <4>2, <4>3 DEF Op, OpSteps, TokenOrNil
      <4>5. op'[t] = q
        BY <4>1 DEF SessionsTyped, OpTyped
      <4>. QED
        BY <4>4, <4>5, NilIsNoRequest
    <3>. QED
      BY <3>1, <3>2, <3>3 DEF PasswordEndsSessions
  <2>3. (\E t \in Tabs : UpdatePassword(t)) \/ password' = password
    BY PasswordLocal DEF TakeResetKey, ForgotPassword
  <2>. QED
    BY <2>1, <2>2, <2>3
<1>. QED
  BY <1>1, <1>2, <1>3, PasswordParts

\* For any number of tabs, browsers, tokens, links and faults, each reset link
\* sets the password at most once, and a change of the password leaves no
\* session of an earlier one: but between its update and its revocation, after
\* a failure between the two, and for requests that overlap it.
THEOREM OnePasswordHolds == Spec => []PasswordHolds
<1>. DEFINE Inv == SessionsTyped /\ FamiliesInv /\ ResetsSpent /\ PasswordEndsSessions
<1>1. Init => Inv
  <2>. SUFFICES ASSUME Init PROVE ResetsSpent /\ PasswordEndsSessions
    BY InitTypes, InitFamilies
  <2>1. /\ issued = 1 /\ born = [k \in Tokens |-> 0] /\ password = 0 /\ 1 \in Tokens
        /\ history.resets = [r \in Resets |-> 0] /\ \A t \in Tabs : op[t] = Nil
    BY BoundsAreNat DEF Init, Tokens
  <2>2. ResetsSpent
    BY <2>1 DEF ResetsSpent, Resetting
  <2>3. \A f \in 1..issued : born[f] = password
    BY <2>1
  <2>. QED
    BY <2>2, <2>3 DEF PasswordEndsSessions
<1>2. Inv /\ [Next]_vars => Inv'
  BY NextTypes, FamiliesStep, ResetsStep, PasswordStep
<1>3. Inv => PasswordHolds
  BY DEF PasswordHolds, ResetOnce, ResetsSpent
<1>. QED
  BY <1>1, <1>2, <1>3, PTL DEF Spec
=============================================================================
