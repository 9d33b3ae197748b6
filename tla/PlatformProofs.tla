--------------------------- MODULE PlatformProofs ---------------------------
(***************************************************************************)
(* What is proved of what others plug into the panel, for every set of     *)
(* plugins and manifests and every overlap of requests: the tokens of      *)
(* plugins, the answers a deployment waits for, and the notifications a    *)
(* panel sends before it stops.  Then what is proved of the copies it      *)
(* keeps: Backups, for any number of backups at once, any retention and    *)
(* every combination of faults; and VolumeRestore, for any number of       *)
(* restores of a volume of an app of any size.  Last, the code it is sent, *)
(* for any number of people and apps.                                      *)
(***************************************************************************)
EXTENDS Notify, Uploads, Backups, VolumeRestore, FiniteSetTheorems, WellFoundedInduction, TLAPS

LEMMA Appended ==
    ASSUME NEW S, NEW s \in Seq(S), NEW e \in S
    PROVE  ToSet(Append(s, e)) = ToSet(s) \cup {e} /\ Append(s, e) \in Seq(S) /\ Len(Append(s, e)) = Len(s) + 1
<1>1. /\ Append(s, e) \in Seq(S) /\ Len(Append(s, e)) = Len(s) + 1 /\ Len(s) \in Nat
      /\ DOMAIN Append(s, e) = 1..(Len(s) + 1) /\ DOMAIN s = 1..Len(s)
      /\ Append(s, e)[Len(s) + 1] = e /\ \A i \in 1..Len(s) : Append(s, e)[i] = s[i]
  OBVIOUS
<1>2. 1..(Len(s) + 1) = 1..Len(s) \cup {Len(s) + 1}
  BY <1>1
<1>3. QED BY <1>1, <1>2 DEF ToSet

-----------------------------------------------------------------------------
(* Tokens.                                                                 *)

Permissions == {m.permissions : m \in Manifests}
Tokens == [n : Nat, scopes : Permissions]
PluginRows == [manifest : Manifests, status : {"installing", "running", "failed"}, enabled : BOOLEAN, token : Tokens]
Installs == [at : {"row", "objects", "wait", "failed"}, p : PluginIds, manifest : Manifests, token : Tokens,
             seen : SUBSET Permissions]
Removals == [at : {"token", "namespace", "row"}, p : PluginIds, token : Tokens]

TokenTypes ==
    /\ served \in [PluginIds -> Manifests] /\ agreed \in [PluginIds -> SUBSET Permissions]
    /\ plugin \in [PluginIds -> SUBSET PluginRows] /\ pserial \in Nat /\ ptokens \subseteq Tokens
    /\ install = NoRequest \/ install \in Installs
    /\ removal = NoRequest \/ removal \in Removals

\* A plugin has one row, with a token that was made for what it asks for.
RowsHoldTokens ==
    \A p \in PluginIds : \A r \in plugin[p] : /\ r.token.scopes = r.manifest.permissions /\ r.token.n <= pserial
                                              /\ \A x \in plugin[p] : x = r

\* What an install made is what the owner saw; a row it has written is still there as long as its token is,
\* unless the store would not delete it.
InstallHoldsToken ==
    install.at # "off" =>
        /\ install.token.scopes = install.manifest.permissions /\ install.token.n <= pserial
        /\ \A seen \in install.seen : ToSet(seen) = ToSet(install.token.scopes)
        /\ install.at # "row" /\ install.token \in ptokens \ stray =>
               \E r \in plugin[install.p] : r.token = install.token /\ r.manifest = install.manifest

\* A plugin that is being removed has lost its token, unless the store would not delete it, and no new row
\* takes the place of the old one.
RemovalTakesToken ==
    removal.at # "off" =>
        /\ plugin[removal.p] # {} /\ \A r \in plugin[removal.p] : r.token = removal.token
        /\ removal.at # "token" => removal.token \notin ptokens \ stray

TokenInv == TokenTypes /\ RowsHoldTokens /\ InstallHoldsToken /\ RemovalTakesToken /\ TokensAreAccountedFor

\* What is the same names as often is the same set of names.
LEMMA SamePermissionsAreSame ==
    ASSUME NEW seen \in Permissions, NEW asked \in Permissions, SamePermissions(seen, asked)
    PROVE  ToSet(seen) = ToSet(asked)
<1>1. seen \in Seq(STRING) /\ asked \in Seq(STRING)
  BY PluginAssumption DEF Permissions
<1>2. ASSUME NEW s \in Seq(STRING), NEW t \in Seq(STRING), NEW x \in ToSet(s),
             Cardinality({i \in DOMAIN s : s[i] = x}) = Cardinality({i \in DOMAIN t : t[i] = x})
      PROVE  x \in ToSet(t)
  <2> DEFINE S == {i \in DOMAIN s : s[i] = x}
             T == {i \in DOMAIN t : t[i] = x}
  <2>1. S # {}
    BY DEF ToSet
  <2>2. S \subseteq 1..Len(s) /\ Len(s) \in Nat
    OBVIOUS
  <2>3. IsFiniteSet(S)
    BY <2>2, FS_Interval, FS_Subset
  <2>4. Cardinality(S) # 0
    BY <2>1, <2>3, FS_EmptySet
  <2>5. T # {}
    BY <1>2, <2>4, FS_EmptySet
  <2>6. QED BY <2>5 DEF ToSet
<1>3. \A x \in ToSet(seen) \cup ToSet(asked) :
          Cardinality({i \in DOMAIN seen : seen[i] = x}) = Cardinality({i \in DOMAIN asked : asked[i] = x})
  BY DEF SamePermissions
<1>4. ToSet(seen) \subseteq ToSet(asked)
  BY <1>1, <1>2, <1>3
<1>5. ToSet(asked) \subseteq ToSet(seen)
  BY <1>1, <1>2, <1>3
<1>6. QED BY <1>4, <1>5

LEMMA TokenStart == PluginInit => TokenInv
BY DEF PluginInit, TokenInv, TokenTypes, RowsHoldTokens, InstallHoldsToken, RemovalTakesToken, TokensAreAccountedFor, NoRequest

LEMMA CreateTokenKeeps == ASSUME TokenInv, NEW p \in PluginIds, CreateToken(p) PROVE TokenInv'
<1>1. PICK token : /\ token = [n |-> pserial + 1, scopes |-> served[p].permissions]
                   /\ ptokens' = ptokens \cup {token} /\ pserial' = pserial + 1
                   /\ install' = [at |-> "row", p |-> p, manifest |-> served[p], token |-> token, seen |-> agreed[p]]
  BY DEF CreateToken
<1>2. /\ served[p] \in Manifests /\ pserial \in Nat /\ agreed[p] \subseteq Permissions /\ install = NoRequest
      /\ \A seen \in agreed[p] : SamePermissions(seen, served[p].permissions)
      /\ UNCHANGED <<served, agreed, plugin, stray, removal>>
  BY DEF CreateToken, TokenInv, TokenTypes, Installs
<1>3. token \in Tokens /\ token.n = pserial + 1 /\ token.scopes = served[p].permissions /\ served[p].permissions \in Permissions
  BY <1>1, <1>2 DEF Tokens, Permissions
<1>4. \A seen \in agreed[p] : ToSet(seen) = ToSet(token.scopes)
  BY <1>2, <1>3, SamePermissionsAreSame
<1>5. install' \in Installs /\ install'.at = "row" /\ install'.p = p /\ install'.manifest = served[p]
      /\ install'.token = token /\ install'.seen = agreed[p]
  BY <1>1, <1>2, <1>3 DEF Installs
<1>6. TokenTypes'
  BY <1>1, <1>2, <1>3, <1>5 DEF TokenInv, TokenTypes
<1>7. \A q \in PluginIds : \A r \in plugin[q] : r.token.n <= pserial /\ r.token.n \in Nat /\ r.token # token
  BY <1>2, <1>3 DEF TokenInv, RowsHoldTokens, TokenTypes, PluginRows, Tokens
<1>8. RowsHoldTokens'
  BY <1>1, <1>2, <1>7 DEF TokenInv, RowsHoldTokens
<1>9. InstallHoldsToken'
  BY <1>1, <1>2, <1>3, <1>4, <1>5 DEF InstallHoldsToken
<1>10. RemovalTakesToken'
  <2>1. removal.at # "off" => removal.p \in PluginIds
    BY DEF TokenInv, TokenTypes, NoRequest, Removals
  <2>2. removal.at # "off" => removal.token # token
    BY <1>7, <2>1 DEF TokenInv, RemovalTakesToken
  <2>3. QED BY <1>1, <1>2, <2>2 DEF TokenInv, RemovalTakesToken
<1>11. TokensAreAccountedFor'
  BY <1>1, <1>2, <1>4, <1>5 DEF TokenInv, TokensAreAccountedFor, NoRequest
<1>12. QED BY <1>6, <1>8, <1>9, <1>10, <1>11 DEF TokenInv

LEMMA RowsStay ==
    ASSUME TokenInv, UNCHANGED <<plugin, pserial>> PROVE RowsHoldTokens'
BY DEF TokenInv, RowsHoldTokens

LEMMA InstallFacts ==
    ASSUME TokenInv, install.at # "off"
    PROVE  install \in Installs /\ install.p \in PluginIds /\ install.token \in Tokens /\ install.manifest \in Manifests
BY DEF TokenInv, TokenTypes, NoRequest, Installs

LEMMA RemovalFacts ==
    ASSUME TokenInv, removal.at # "off" PROVE removal.p \in PluginIds /\ removal \in Removals
BY DEF TokenInv, TokenTypes, NoRequest, Removals

LEMMA CreatePluginKeeps == ASSUME TokenInv, CreatePlugin PROVE TokenInv'
<1> DEFINE p == install.p
<1>1. /\ install \in Installs /\ p \in PluginIds /\ install.token \in Tokens /\ install.manifest \in Manifests
      /\ install.at = "row" /\ UNCHANGED <<served, agreed, removal, pserial>>
  BY InstallFacts DEF CreatePlugin
<1>2. CASE /\ plugin[p] = {}
           /\ plugin' = [plugin EXCEPT ![p] =
                  {[manifest |-> install.manifest, status |-> "installing", enabled |-> TRUE, token |-> install.token]}]
           /\ install' = [install EXCEPT !.at = "objects"]
           /\ UNCHANGED <<ptokens, stray>>
  <2> DEFINE r == [manifest |-> install.manifest, status |-> "installing", enabled |-> TRUE, token |-> install.token]
  <2>1. r \in PluginRows /\ r.manifest = install.manifest /\ r.token = install.token
    BY <1>1 DEF PluginRows
  <2>2. /\ install' \in Installs /\ install'.at = "objects" /\ install'.p = install.p /\ install'.token = install.token
        /\ install'.manifest = install.manifest /\ install'.seen = install.seen
    BY <1>1, <1>2 DEF Installs
  <2>3. plugin' = [plugin EXCEPT ![p] = {r}]
    BY <1>2
  <2> HIDE DEF r
  <2>4. plugin' \in [PluginIds -> SUBSET PluginRows] /\ plugin'[p] = {r} /\ \A q \in PluginIds : q # p => plugin'[q] = plugin[q]
    BY <1>1, <2>1, <2>3 DEF TokenInv, TokenTypes
  <2>5. TokenTypes'
    BY <1>1, <1>2, <2>2, <2>4 DEF TokenInv, TokenTypes
  <2>6. RowsHoldTokens'
    BY <1>1, <2>1, <2>4 DEF TokenInv, RowsHoldTokens, InstallHoldsToken
  <2>7. InstallHoldsToken'
    BY <1>1, <1>2, <2>1, <2>2, <2>4 DEF TokenInv, InstallHoldsToken
  <2>8. RemovalTakesToken'
    BY <1>1, <1>2, <2>4, RemovalFacts DEF TokenInv, RemovalTakesToken
  <2>9. TokensAreAccountedFor'
    BY <1>1, <1>2, <2>2, <2>4 DEF TokenInv, TokensAreAccountedFor
  <2>10. QED BY <2>5, <2>6, <2>7, <2>8, <2>9 DEF TokenInv
<1>3. CASE /\ install' = NoRequest /\ UNCHANGED plugin
           /\ \/ ptokens' = ptokens \ {install.token} /\ UNCHANGED stray
              \/ stray' = stray \cup {install.token} /\ UNCHANGED ptokens
  <2>0. ptokens' \ stray' = (ptokens \ stray) \ {install.token} /\ ptokens' \subseteq ptokens
    BY <1>3
  <2>1. TokenTypes' /\ RowsHoldTokens'
    BY <1>1, <1>3, <2>0, RowsStay DEF TokenInv, TokenTypes
  <2>2. InstallHoldsToken' /\ RemovalTakesToken'
    BY <1>1, <1>3, <2>0 DEF TokenInv, InstallHoldsToken, RemovalTakesToken, NoRequest
  <2>3. TokensAreAccountedFor'
    BY <1>1, <1>3, <2>0 DEF TokenInv, TokensAreAccountedFor
  <2>4. QED BY <2>1, <2>2, <2>3 DEF TokenInv
<1>4. QED BY <1>2, <1>3 DEF CreatePlugin

LEMMA InstallObjectsKeeps == ASSUME TokenInv, InstallObjects PROVE TokenInv'
<1>1. /\ install \in Installs /\ install.at = "objects" /\ UNCHANGED <<served, agreed, plugin, ptokens, stray, removal, pserial>>
  BY InstallFacts DEF InstallObjects
<1>2. PICK next \in {"wait", "failed"} : install' = [install EXCEPT !.at = next]
  BY DEF InstallObjects
<1>3. /\ install' \in Installs /\ install'.at = next /\ install'.p = install.p /\ install'.token = install.token
      /\ install'.manifest = install.manifest /\ install'.seen = install.seen
  BY <1>1, <1>2 DEF Installs
<1>4. TokenTypes' /\ RowsHoldTokens'
  BY <1>1, <1>3, RowsStay DEF TokenInv, TokenTypes
<1>5. InstallHoldsToken' /\ RemovalTakesToken'
  BY <1>1, <1>3 DEF TokenInv, InstallHoldsToken, RemovalTakesToken
<1>6. TokensAreAccountedFor'
  BY <1>1, <1>3 DEF TokenInv, TokensAreAccountedFor
<1>7. QED BY <1>4, <1>5, <1>6 DEF TokenInv

\* A row whose status changes is the same row.
LEMMA RowsChange ==
    ASSUME TokenInv, NEW p \in PluginIds, NEW rows \in SUBSET PluginRows, plugin' = [plugin EXCEPT ![p] = rows],
           \A r \in rows : \E x \in plugin[p] : r.token = x.token /\ r.manifest = x.manifest,
           \A x \in plugin[p] : \E r \in rows : r.token = x.token /\ r.manifest = x.manifest,
           \A r, x \in rows : r = x, UNCHANGED <<ptokens, stray, pserial, removal>>
    PROVE  /\ plugin' \in [PluginIds -> SUBSET PluginRows] /\ RowsHoldTokens' /\ RemovalTakesToken'
           /\ \A q \in PluginIds : \A x \in plugin[q] : \E r \in plugin'[q] : r.token = x.token /\ r.manifest = x.manifest
<1>1. /\ plugin' \in [PluginIds -> SUBSET PluginRows] /\ plugin'[p] = rows
      /\ \A q \in PluginIds : q # p => plugin'[q] = plugin[q]
  BY DEF TokenInv, TokenTypes
<1>2. \A q \in PluginIds : \A x \in plugin[q] : \E r \in plugin'[q] : r.token = x.token /\ r.manifest = x.manifest
  BY <1>1
<1>3. \A q \in PluginIds : \A r \in plugin'[q] : \E x \in plugin[q] : r.token = x.token /\ r.manifest = x.manifest
  BY <1>1
<1>4. RowsHoldTokens'
  BY <1>1, <1>3 DEF TokenInv, RowsHoldTokens
<1>5. RemovalTakesToken'
  <2>1. ASSUME removal.at # "off"
        PROVE  plugin'[removal.p] # {} /\ \A r \in plugin'[removal.p] : r.token = removal.token
    <3>1. removal.p \in PluginIds
      BY <2>1, RemovalFacts
    <3>2. plugin[removal.p] # {} /\ \A x \in plugin[removal.p] : x.token = removal.token
      BY <2>1 DEF TokenInv, RemovalTakesToken
    <3>3. plugin'[removal.p] # {}
      BY <1>2, <3>1, <3>2
    <3>4. QED BY <1>3, <3>1, <3>2, <3>3
  <2>2. QED BY <2>1 DEF TokenInv, RemovalTakesToken
<1>6. QED BY <1>1, <1>2, <1>4, <1>5

LEMMA WaitKeeps == ASSUME TokenInv, WaitForDeployment PROVE TokenInv'
<1> DEFINE p == install.p
<1>1. /\ install \in Installs /\ p \in PluginIds /\ install.at \in {"wait", "failed"} /\ install' = NoRequest
      /\ UNCHANGED <<served, agreed, ptokens, stray, removal, pserial>>
  BY InstallFacts DEF WaitForDeployment
<1>0. CASE UNCHANGED plugin
  <2>1. TokenTypes' /\ RowsHoldTokens' /\ InstallHoldsToken' /\ RemovalTakesToken'
    BY <1>0, <1>1, RowsStay DEF TokenInv, TokenTypes, InstallHoldsToken, RemovalTakesToken, NoRequest
  <2>2. ASSUME NEW t \in ptokens \ stray PROVE \E q \in PluginIds : \E r \in plugin[q] : r.token = t /\ t.scopes = r.manifest.permissions
    BY <1>1 DEF TokenInv, TokensAreAccountedFor, InstallHoldsToken
  <2>3. QED BY <1>0, <1>1, <2>1, <2>2 DEF TokenInv, TokensAreAccountedFor
<1> SUFFICES ASSUME plugin' # plugin PROVE TokenInv'
  BY <1>0
<1>2. PICK status \in {"running", "failed"} : plugin' = [plugin EXCEPT ![p] = {[r EXCEPT !.status = status] : r \in plugin[p]}]
  BY DEF WaitForDeployment, SetPluginStatus
<1> DEFINE rows == {[r EXCEPT !.status = status] : r \in plugin[p]}
<1>3. \A r \in plugin[p] : /\ [r EXCEPT !.status = status] \in PluginRows
                           /\ [r EXCEPT !.status = status].token = r.token /\ [r EXCEPT !.status = status].manifest = r.manifest
  BY <1>1 DEF TokenInv, TokenTypes, PluginRows
<1>4. /\ rows \in SUBSET PluginRows
      /\ \A r \in rows : \E x \in plugin[p] : r.token = x.token /\ r.manifest = x.manifest
      /\ \A x \in plugin[p] : \E r \in rows : r.token = x.token /\ r.manifest = x.manifest
      /\ \A r, x \in rows : r = x
  <2>1. rows \in SUBSET PluginRows
    BY <1>3
  <2>2. \A r \in rows : \E x \in plugin[p] : r.token = x.token /\ r.manifest = x.manifest
    BY <1>3
  <2>3. \A x \in plugin[p] : \E r \in rows : r.token = x.token /\ r.manifest = x.manifest
    BY <1>3
  <2>4. \A u, v \in plugin[p] : u = v
    BY <1>1 DEF TokenInv, RowsHoldTokens
  <2>5. \A r, x \in rows : r = x
    BY <2>4
  <2>6. QED BY <2>1, <2>2, <2>3, <2>5
<1>5. plugin' = [plugin EXCEPT ![p] = rows]
  BY <1>2
<1> HIDE DEF rows
<1>6. /\ plugin' \in [PluginIds -> SUBSET PluginRows] /\ RowsHoldTokens' /\ RemovalTakesToken'
      /\ \A q \in PluginIds : \A x \in plugin[q] : \E r \in plugin'[q] : r.token = x.token /\ r.manifest = x.manifest
  BY <1>1, <1>4, <1>5, RowsChange
<1>7. TokenTypes' /\ InstallHoldsToken'
  BY <1>1, <1>6 DEF TokenInv, TokenTypes, InstallHoldsToken, NoRequest
<1>8. TokensAreAccountedFor'
  <2>1. ASSUME NEW t \in ptokens \ stray PROVE \E q \in PluginIds : \E r \in plugin'[q] : r.token = t /\ t.scopes = r.manifest.permissions
    <3>1. \E q \in PluginIds : \E r \in plugin[q] : r.token = t /\ t.scopes = r.manifest.permissions
      BY <1>1, <2>1 DEF TokenInv, TokensAreAccountedFor, InstallHoldsToken
    <3>2. QED BY <1>6, <3>1
  <2>2. QED BY <1>1, <2>1 DEF TokensAreAccountedFor
<1>9. QED BY <1>6, <1>7, <1>8 DEF TokenInv

LEMMA SwitchKeeps == ASSUME TokenInv, NEW p \in PluginIds, SetPluginEnabled(p) PROVE TokenInv'
<1>1. UNCHANGED <<served, agreed, ptokens, stray, install, removal, pserial>>
  BY DEF SetPluginEnabled
<1>2. PICK x \in plugin[p] : plugin' = [plugin EXCEPT ![p] = {[x EXCEPT !.enabled = ~@]}]
  BY DEF SetPluginEnabled
<1> DEFINE y == [x EXCEPT !.enabled = ~@]
<1>3. y \in PluginRows /\ y.token = x.token /\ y.manifest = x.manifest
  <2>1. x \in PluginRows
    BY DEF TokenInv, TokenTypes
  <2>2. QED BY <2>1 DEF PluginRows
<1>4. plugin' = [plugin EXCEPT ![p] = {y}] /\ \A r \in plugin[p] : r = x
  BY <1>2 DEF TokenInv, RowsHoldTokens
<1> HIDE DEF y
<1>a. /\ {y} \in SUBSET PluginRows
      /\ \A r \in {y} : \E u \in plugin[p] : r.token = u.token /\ r.manifest = u.manifest
      /\ \A u \in plugin[p] : \E r \in {y} : r.token = u.token /\ r.manifest = u.manifest
      /\ \A r, u \in {y} : r = u
  BY <1>3, <1>4
<1>5. /\ plugin' \in [PluginIds -> SUBSET PluginRows] /\ RowsHoldTokens' /\ RemovalTakesToken'
      /\ \A q \in PluginIds : \A u \in plugin[q] : \E r \in plugin'[q] : r.token = u.token /\ r.manifest = u.manifest
  BY <1>1, <1>4, <1>a, RowsChange
<1>6. TokenTypes'
  BY <1>1, <1>5 DEF TokenInv, TokenTypes
<1>7. InstallHoldsToken'
  BY <1>1, <1>5, InstallFacts DEF TokenInv, InstallHoldsToken
<1>8. TokensAreAccountedFor'
  BY <1>1, <1>5 DEF TokenInv, TokensAreAccountedFor
<1>9. QED BY <1>5, <1>6, <1>7, <1>8 DEF TokenInv

LEMMA UninstallKeeps == ASSUME TokenInv, NEW p \in PluginIds, UninstallPlugin(p) PROVE TokenInv'
<1>1. PICK r \in plugin[p] : removal' = [at |-> "token", p |-> p, token |-> r.token]
  BY DEF UninstallPlugin
<1>2. UNCHANGED <<served, agreed, plugin, ptokens, stray, install, pserial>>
  BY DEF UninstallPlugin
<1>3. r.token \in Tokens /\ \A x \in plugin[p] : x = r
  BY DEF TokenInv, TokenTypes, PluginRows, RowsHoldTokens
<1>4. removal' \in Removals /\ removal'.at = "token" /\ removal'.p = p /\ removal'.token = r.token
  BY <1>1, <1>3 DEF Removals
<1>5. TokenTypes' /\ RowsHoldTokens'
  BY <1>2, <1>4, RowsStay DEF TokenInv, TokenTypes
<1>6. RemovalTakesToken'
  BY <1>2, <1>3, <1>4 DEF RemovalTakesToken
<1>7. QED BY <1>2, <1>5, <1>6 DEF TokenInv, InstallHoldsToken, TokensAreAccountedFor

LEMMA RevokeKeeps == ASSUME TokenInv, RevokeToken PROVE TokenInv'
<1>1. /\ removal.at = "token" /\ removal' = [removal EXCEPT !.at = "namespace"] /\ removal \in Removals
      /\ UNCHANGED <<served, agreed, plugin, install, pserial>>
  BY RemovalFacts DEF RevokeToken
<1>2. removal' \in Removals /\ removal'.at = "namespace" /\ removal'.p = removal.p /\ removal'.token = removal.token
  BY <1>1 DEF Removals
<1>3. ptokens' \ stray' = (ptokens \ stray) \ {removal.token} /\ ptokens' \subseteq ptokens
  BY DEF RevokeToken
<1>4. TokenTypes' /\ RowsHoldTokens'
  BY <1>1, <1>2, <1>3, RowsStay DEF TokenInv, TokenTypes
<1>5. InstallHoldsToken'
  BY <1>1, <1>3 DEF TokenInv, InstallHoldsToken
<1>6. RemovalTakesToken'
  BY <1>1, <1>2, <1>3 DEF TokenInv, RemovalTakesToken
<1>7. TokensAreAccountedFor'
  BY <1>1, <1>3 DEF TokenInv, TokensAreAccountedFor
<1>8. QED BY <1>4, <1>5, <1>6, <1>7 DEF TokenInv

LEMMA NamespaceGoesKeeps == ASSUME TokenInv, RemovePlugin PROVE TokenInv'
<1>1. /\ removal.at = "namespace" /\ removal' = [removal EXCEPT !.at = "row"]
      /\ UNCHANGED <<served, agreed, plugin, ptokens, stray, install, pserial>>
  BY DEF RemovePlugin
<1>2. removal' \in Removals /\ removal'.at = "row" /\ removal'.p = removal.p /\ removal'.token = removal.token
  BY <1>1, RemovalFacts DEF Removals
<1>3. TokenTypes' /\ RowsHoldTokens'
  BY <1>1, <1>2, RowsStay DEF TokenInv, TokenTypes
<1>4. InstallHoldsToken' /\ TokensAreAccountedFor'
  BY <1>1 DEF TokenInv, InstallHoldsToken, TokensAreAccountedFor
<1>5. RemovalTakesToken'
  BY <1>1, <1>2 DEF TokenInv, RemovalTakesToken
<1>6. QED BY <1>3, <1>4, <1>5 DEF TokenInv

LEMMA RowGoesKeeps == ASSUME TokenInv, DeletePlugin PROVE TokenInv'
<1> DEFINE p == removal.p
<1>1. /\ removal.at = "row" /\ removal' = NoRequest
      /\ UNCHANGED <<served, agreed, ptokens, stray, install, pserial>>
  BY DEF DeletePlugin
<1>2. p \in PluginIds
  BY <1>1, RemovalFacts
<1>a. CASE UNCHANGED plugin
  <2>1. TokenTypes' /\ RowsHoldTokens'
    BY <1>1, <1>a, RowsStay DEF TokenInv, TokenTypes
  <2>2. QED BY <1>1, <1>a, <2>1 DEF TokenInv, InstallHoldsToken, RemovalTakesToken, TokensAreAccountedFor, NoRequest
<1> SUFFICES ASSUME plugin' # plugin PROVE TokenInv'
  BY <1>a
<1>b. plugin' = [plugin EXCEPT ![p] = {}]
  BY DEF DeletePlugin
<1>3. /\ plugin' \in [PluginIds -> SUBSET PluginRows] /\ plugin'[p] = {}
      /\ \A q \in PluginIds : q # p => plugin'[q] = plugin[q]
  BY <1>b, <1>2 DEF TokenInv, TokenTypes
<1>4. \A r \in plugin[p] : r.token \notin ptokens \ stray
  BY <1>1 DEF TokenInv, RemovalTakesToken
<1> HIDE DEF p
<1>5. TokenTypes' /\ RowsHoldTokens'
  BY <1>1, <1>3 DEF TokenInv, TokenTypes, RowsHoldTokens
<1>6. InstallHoldsToken'
  BY <1>1, <1>3, <1>4, InstallFacts DEF TokenInv, InstallHoldsToken
<1>7. RemovalTakesToken'
  BY <1>1 DEF RemovalTakesToken, NoRequest
<1>8. TokensAreAccountedFor'
  BY <1>1, <1>3, <1>4 DEF TokenInv, TokensAreAccountedFor
<1>9. QED BY <1>5, <1>6, <1>7, <1>8 DEF TokenInv

LEMMA InspectKeeps == ASSUME TokenInv, NEW p \in PluginIds, InspectPlugin(p) PROVE TokenInv'
<1>1. /\ agreed' = [agreed EXCEPT ![p] = {served[p].permissions}]
      /\ UNCHANGED <<served, plugin, ptokens, stray, install, removal, pserial>>
  BY DEF InspectPlugin
<1>2. served[p].permissions \in Permissions
  BY DEF TokenInv, TokenTypes, Permissions
<1>3. TokenTypes' /\ RowsHoldTokens'
  BY <1>1, <1>2, RowsStay DEF TokenInv, TokenTypes
<1>4. QED BY <1>1, <1>3 DEF TokenInv, InstallHoldsToken, RemovalTakesToken, TokensAreAccountedFor

LEMMA ManifestKeeps == ASSUME TokenInv, NEW p \in PluginIds, NEW m \in Manifests, ManifestChanges(p, m) PROVE TokenInv'
<1>1. /\ served' = [served EXCEPT ![p] = m] /\ UNCHANGED <<agreed, plugin, ptokens, stray, install, removal, pserial>>
  BY DEF ManifestChanges
<1>2. TokenTypes' /\ RowsHoldTokens'
  BY <1>1, RowsStay DEF TokenInv, TokenTypes
<1>3. QED BY <1>1, <1>2 DEF TokenInv, InstallHoldsToken, RemovalTakesToken, TokensAreAccountedFor

tokenVars == <<served, agreed, plugin, ptokens, stray, install, removal, pserial>>

LEMMA ElsewhereKeeps == ASSUME TokenInv, UNCHANGED tokenVars PROVE TokenInv'
BY DEF tokenVars, TokenInv, TokenTypes, RowsHoldTokens, InstallHoldsToken, RemovalTakesToken, TokensAreAccountedFor

\* Every step of the plugins: those that concern the tokens, and the others.
LEMMA TokenStepKeeps == ASSUME TokenInv, [PluginNext]_pluginVars PROVE TokenInv'
<1>1. ASSUME NEW p \in PluginIds,
             \/ InspectPlugin(p) \/ CreateToken(p) \/ UninstallPlugin(p) \/ SetPluginEnabled(p)
             \/ \E m \in Manifests : ManifestChanges(p, m)
      PROVE  TokenInv'
  BY <1>1, InspectKeeps, CreateTokenKeeps, UninstallKeeps, SwitchKeeps, ManifestKeeps
<1>2. ASSUME NEW p \in PluginIds,
             \/ \E k \in KeyOf, v \in {"", "new"} : SaveSettings(p, [x \in {k} |-> v])
             \/ \E answer \in Answers : Ask(p, answer)
      PROVE  UNCHANGED tokenVars
  <2>1. ASSUME NEW k \in KeyOf, NEW v \in {"", "new"}, SaveSettings(p, [x \in {k} |-> v]) PROVE UNCHANGED tokenVars
    BY <2>1 DEF SaveSettings, tokenVars
  <2>2. ASSUME NEW answer \in Answers, Ask(p, answer) PROVE UNCHANGED tokenVars
    BY <2>2 DEF Ask, tokenVars
  <2>3. QED BY <1>2, <2>1, <2>2
<1>3. CASE CreatePlugin \/ InstallObjects \/ WaitForDeployment \/ RevokeToken \/ RemovePlugin \/ DeletePlugin
  BY <1>3, CreatePluginKeeps, InstallObjectsKeeps, WaitKeeps, RevokeKeeps, NamespaceGoesKeeps, RowGoesKeeps
<1>4. CASE RestartPlugin \/ ScalePlugin \/ AskEnds \/ EventEnds
  <2>1. UNCHANGED tokenVars
    BY <1>4 DEF RestartPlugin, ScalePlugin, AskEnds, EventEnds, tokenVars
  <2>2. QED BY <2>1, ElsewhereKeeps
<1>5. ASSUME NEW n \in Namespaces, PodStarts(n) \/ PodStops(n) PROVE TokenInv'
  <2>1. UNCHANGED tokenVars
    BY <1>5 DEF PodStarts, PodStops, tokenVars
  <2>2. QED BY <2>1, ElsewhereKeeps
<1>6. ASSUME NEW t \in PTeams, MembershipChanges(t) \/ AskBegins(t) \/ \E e \in PluginEvents : Tell(e, t) PROVE TokenInv'
  <2>1. UNCHANGED tokenVars
    BY <1>6 DEF MembershipChanges, AskBegins, Tell, tokenVars
  <2>2. QED BY <2>1, ElsewhereKeeps
<1>7. CASE UNCHANGED pluginVars
  <2>1. UNCHANGED tokenVars
    BY <1>7 DEF pluginVars, tokenVars
  <2>2. QED BY <2>1, ElsewhereKeeps
<1>8. QED BY <1>1, <1>2, <1>3, <1>4, <1>5, <1>6, <1>7, ElsewhereKeeps DEF PluginNext

\* A live token of a plugin belongs to a plugin that is installed or being installed, and
\* grants what the owner saw, however installs, removals, updates and changed manifests
\* overlap and whatever is refused, except a token the store would not delete
\* (handleInstallPlugin, handleUninstallPlugin).
THEOREM TokensAccountedForAlways == PluginSpec => []TokensAreAccountedFor
<1>1. PluginInit => TokenInv
  BY TokenStart
<1>2. TokenInv /\ [PluginNext]_pluginVars => TokenInv'
  BY TokenStepKeeps
<1>3. TokenInv => TokensAreAccountedFor
  BY DEF TokenInv
<1>4. QED BY <1>1, <1>2, <1>3, PTL DEF PluginSpec

-----------------------------------------------------------------------------
(* What a deployment asks the plugins.                                     *)

Replies == [p : PluginIds, answer : Answers]
Askings == [at : {"ask", "answered"}, team : PTeams, wanted : SUBSET PluginIds, unread : SUBSET PluginIds,
            left : SUBSET PluginIds, said : Seq(Replies), allow : BOOLEAN]

\* Who is left and who has answered are all that should be asked and could be read, and the verdict is that
\* of the answers.
AnswersAreCounted ==
    asking.at \in {"ask", "answered"} =>
        /\ asking \in Askings
        /\ {x.p : x \in ToSet(asking.said)} \cup asking.left = asking.wanted \ asking.unread
        /\ asking.allow => \A x \in ToSet(asking.said) : x.answer \notin CountedAsNo
        /\ ~asking.allow => \E x \in ToSet(asking.said) : x.answer \in CountedAsNo
        /\ asking.at = "answered" /\ asking.allow => asking.left = {}

LEMMA AskingBegins == ASSUME AnswersAreCounted, NEW t \in PTeams, AskBegins(t) PROVE AnswersAreCounted'
<1>1. PICK unread \in SUBSET PluginIds :
          asking' = [at |-> "ask", team |-> t, wanted |-> Blockers(t, {}), unread |-> unread,
                     left |-> Blockers(t, unread), said |-> <<>>, allow |-> TRUE]
  BY DEF AskBegins
<1>2. /\ Blockers(t, {}) \in SUBSET PluginIds /\ Blockers(t, unread) \in SUBSET PluginIds
      /\ Blockers(t, unread) = Blockers(t, {}) \ unread
  BY DEF Blockers, PluginTargets
<1>3. /\ asking' \in Askings /\ asking'.at = "ask" /\ asking'.left = asking'.wanted \ asking'.unread /\ asking'.allow
      /\ asking'.said = <<>>
  BY <1>1, <1>2 DEF Askings
<1>4. ToSet(<<>>) = {}
  BY DEF ToSet
<1>5. QED BY <1>3, <1>4 DEF AnswersAreCounted

LEMMA AskingGoesOn ==
    ASSUME AnswersAreCounted, NEW p \in PluginIds, NEW answer \in Answers, Ask(p, answer) PROVE AnswersAreCounted'
<1> DEFINE reply == [p |-> p, answer |-> answer]
<1>1. /\ asking.at = "ask" /\ asking.allow /\ p \in asking.left /\ asking \in Askings
      /\ asking' = [asking EXCEPT !.left = asking.left \ {p}, !.said = Append(asking.said, reply),
                                  !.allow = answer \notin CountedAsNo]
  BY DEF Ask, AnswersAreCounted
<1>2. reply \in Replies /\ reply.p = p /\ reply.answer = answer /\ asking.said \in Seq(Replies)
  BY <1>1 DEF Replies, Askings
<1> HIDE DEF reply
<1>3. /\ ToSet(Append(asking.said, reply)) = ToSet(asking.said) \cup {reply}
      /\ Append(asking.said, reply) \in Seq(Replies)
  BY <1>2, Appended
<1>4. /\ asking' \in Askings /\ asking'.at = "ask" /\ asking'.left = asking.left \ {p} /\ asking'.wanted = asking.wanted /\ asking'.unread = asking.unread
      /\ asking'.said = Append(asking.said, reply) /\ asking'.allow = (answer \notin CountedAsNo)
  BY <1>1, <1>3 DEF Askings
<1>5. {x.p : x \in ToSet(asking'.said)} = {x.p : x \in ToSet(asking.said)} \cup {p}
  BY <1>2, <1>3, <1>4
<1>6. {x.p : x \in ToSet(asking'.said)} \cup asking'.left = asking'.wanted \ asking'.unread
  BY <1>1, <1>4, <1>5 DEF AnswersAreCounted
<1>7. \A x \in ToSet(asking.said) : x.answer \notin CountedAsNo
  BY <1>1 DEF AnswersAreCounted
<1>8. /\ asking'.allow => \A x \in ToSet(asking'.said) : x.answer \notin CountedAsNo
      /\ ~asking'.allow => \E x \in ToSet(asking'.said) : x.answer \in CountedAsNo
  BY <1>2, <1>3, <1>4, <1>7
<1>9. QED BY <1>4, <1>6, <1>8 DEF AnswersAreCounted

LEMMA AskingStepKeeps == ASSUME AnswersAreCounted, [PluginNext]_pluginVars PROVE AnswersAreCounted'
<1>1. ASSUME NEW t \in PTeams, AskBegins(t) PROVE AnswersAreCounted'
  BY <1>1, AskingBegins
<1>2. ASSUME NEW p \in PluginIds, NEW answer \in Answers, Ask(p, answer) PROVE AnswersAreCounted'
  BY <1>2, AskingGoesOn
<1>3. CASE AskEnds
  <2>1. asking.at = "ask" /\ (asking.left = {} \/ ~asking.allow) /\ asking' = [asking EXCEPT !.at = "answered"] /\ asking \in Askings
    BY <1>3 DEF AskEnds, AnswersAreCounted
  <2>2. /\ asking' \in Askings /\ asking'.at = "answered" /\ asking'.left = asking.left /\ asking'.wanted = asking.wanted
        /\ asking'.unread = asking.unread /\ asking'.said = asking.said /\ asking'.allow = asking.allow
    BY <2>1 DEF Askings
  <2>3. QED BY <2>1, <2>2 DEF AnswersAreCounted
<1>4. CASE EventEnds
  BY <1>4 DEF EventEnds, AnswersAreCounted, NoRequest
<1>5. ASSUME NEW t \in PTeams, NEW e \in PluginEvents, Tell(e, t) PROVE AnswersAreCounted'
  <2>1. asking'.at = "told"
    BY <1>5 DEF Tell
  <2>2. QED BY <2>1 DEF AnswersAreCounted
<1>6. ASSUME UNCHANGED asking PROVE AnswersAreCounted'
  BY <1>6 DEF AnswersAreCounted
<1>7. ASSUME NEW p \in PluginIds,
             \/ InspectPlugin(p) \/ CreateToken(p) \/ UninstallPlugin(p) \/ SetPluginEnabled(p)
             \/ \E m \in Manifests : ManifestChanges(p, m)
             \/ \E k \in KeyOf, v \in {"", "new"} : SaveSettings(p, [x \in {k} |-> v])
      PROVE  UNCHANGED asking
  BY <1>7 DEF InspectPlugin, CreateToken, UninstallPlugin, SetPluginEnabled, ManifestChanges, SaveSettings
<1>8. CASE \/ CreatePlugin \/ InstallObjects \/ WaitForDeployment \/ RevokeToken \/ RemovePlugin \/ DeletePlugin \/ RestartPlugin \/ ScalePlugin
           \/ \E n \in Namespaces : PodStarts(n) \/ PodStops(n)
           \/ \E t \in PTeams : MembershipChanges(t)
  <2>1. UNCHANGED asking
    BY <1>8 DEF CreatePlugin, InstallObjects, WaitForDeployment, RevokeToken, RemovePlugin, DeletePlugin, RestartPlugin, ScalePlugin,
               PodStarts, PodStops, MembershipChanges
  <2>2. QED BY <2>1, <1>6
<1>9. CASE UNCHANGED pluginVars
  BY <1>6, <1>9 DEF pluginVars
<1>10. QED BY <1>1, <1>2, <1>3, <1>4, <1>5, <1>6, <1>7, <1>8, <1>9 DEF PluginNext

\* A deployment is let through when every plugin that blocks and could be read agreed or could
\* not be understood, and stopped only by one of them (Ask, PluginTargets).
THEOREM NobodyIsOverruled == PluginSpec => []NoRefusalOverruled
<1>1. PluginInit => AnswersAreCounted
  BY DEF PluginInit, AnswersAreCounted, NoRequest
<1>2. AnswersAreCounted /\ [PluginNext]_pluginVars => AnswersAreCounted'
  BY AskingStepKeeps
<1>3. AnswersAreCounted => NoRefusalOverruled
  <2>1. ASSUME AnswersAreCounted, asking.at = "answered", asking.allow
        PROVE  /\ asking.wanted \subseteq {x.p : x \in ToSet(asking.said)} \cup asking.unread
               /\ \A x \in ToSet(asking.said) : x.answer \notin CountedAsNo
    BY <2>1 DEF AnswersAreCounted
  <2>2. ASSUME AnswersAreCounted, asking.at = "answered", ~asking.allow
        PROVE  \E x \in ToSet(asking.said) : x.p \in asking.wanted \ asking.unread /\ x.answer \in CountedAsNo
    <3>1. PICK x \in ToSet(asking.said) : x.answer \in CountedAsNo
      BY <2>2 DEF AnswersAreCounted
    <3>2. x.p \in asking.wanted \ asking.unread
      BY <2>2, <3>1 DEF AnswersAreCounted
    <3>3. QED BY <3>1, <3>2
  <2>3. QED BY <2>1, <2>2 DEF NoRefusalOverruled
<1>4. QED BY <1>1, <1>2, <1>3, PTL DEF PluginSpec

-----------------------------------------------------------------------------
(* Notifications.                                                          *)

Outcomes == {"no provider", "no smtp", "reached", "failed"}
Endings == [c : Channels, how : Outcomes]
Notices == [team : PTeams, due : SUBSET Channels, lost : SUBSET Channels, ended : Seq(Endings)]
There == {c \in Channels : channel[c] # {}}
Told(i) == {x.c : x \in ToSet(notices[i].ended)}
Waiting(i) == {s.c : s \in {s \in sends : s.n = i}}

\* Channels have one row, and as many exist as were made.
ChannelRows ==
    /\ channel = [c \in Channels |-> channel[c]]
    /\ \A c \in Channels : \A r, x \in channel[c] : r = x
    /\ IsFiniteSet(There)

\* One goroutine for each channel of an announcement.
SendsAreOfNotices ==
    /\ \A s \in sends : s.n \in DOMAIN notices /\ s.c \in Channels
    /\ \A s, x \in sends : s.n = x.n /\ s.c = x.c => s = x

\* An announcement goes through its list once.
CallsAreOfNotices ==
    /\ \A call \in calls : /\ call = [n |-> call.n, left |-> call.left] /\ call.n \in DOMAIN notices
                           /\ \A x \in call.left : x.c \in Channels
                           /\ \A x, y \in call.left : x.c = y.c => x = y
    /\ \A call, other \in calls : call.n = other.n => call = other

\* Of the channels an announcement is due to, some were told, once, a goroutine is at work for others, some
\* have still to be handed to one, and some were lost.
EachOneWay(told, waiting, left, lost, due) ==
    /\ told \cup waiting \cup left \cup lost = due /\ IsFiniteSet(due)
    /\ told \cap waiting = {} /\ told \cap left = {} /\ told \cap lost = {}
    /\ waiting \cap left = {} /\ waiting \cap lost = {} /\ left \cap lost = {}
DueAreToldOrWaited ==
    \A i \in DOMAIN notices : /\ EachOneWay(Told(i), Waiting(i), Lost(i), notices[i].lost, notices[i].due)
                              /\ Len(notices[i].ended) = Cardinality(Told(i))

TellInv ==
    /\ notices \in Seq(Notices) /\ ChannelRows /\ SendsAreOfNotices /\ CallsAreOfNotices /\ DueAreToldOrWaited
    /\ stopping = "gone" => sends = {} /\ calls = {}
    /\ stopping # "gone" => \A i \in DOMAIN notices : notices[i].lost = {}

LEMMA TellStart == NotifyInit => TellInv
<1> SUFFICES ASSUME NotifyInit PROVE TellInv
  OBVIOUS
<1>1. /\ channel = [c \in Channels |-> {}] /\ sends = {} /\ calls = {} /\ notices = <<>> /\ stopping = "up"
  BY DEF NotifyInit
<1>2. There = {}
  BY <1>1 DEF There
<1>3. ChannelRows
  BY <1>1, <1>2, FS_EmptySet DEF ChannelRows
<1>4. QED BY <1>1, <1>3 DEF TellInv, SendsAreOfNotices, CallsAreOfNotices, DueAreToldOrWaited

\* Goroutines and announcements stay as they are while channels come and go.
LEMMA ChannelChangeKeeps ==
    ASSUME TellInv, UNCHANGED <<calls, sends, notices, stopping>>, NEW c \in Channels, NEW rows,
           channel' = [channel EXCEPT ![c] = rows], \A r, x \in rows : r = x
    PROVE  TellInv'
<1>1. /\ channel' = [d \in Channels |-> channel'[d]] /\ channel'[c] = rows /\ \A d \in Channels : d # c => channel'[d] = channel[d]
  BY DEF TellInv, ChannelRows
<1>2. There' \subseteq There \cup {c}
  BY <1>1 DEF There
<1>3. IsFiniteSet(There \cup {c})
  BY FS_AddElement DEF TellInv, ChannelRows
<1>4. IsFiniteSet(There')
  BY <1>2, <1>3, FS_Subset
<1>5. ChannelRows'
  BY <1>1, <1>4 DEF TellInv, ChannelRows
<1>6. SendsAreOfNotices' /\ CallsAreOfNotices' /\ DueAreToldOrWaited'
  BY DEF TellInv, SendsAreOfNotices, CallsAreOfNotices, DueAreToldOrWaited, Told, Waiting, Lost
<1>7. QED BY <1>5, <1>6 DEF TellInv

LEMMA ElseTellKeeps ==
    ASSUME TellInv, UNCHANGED <<calls, sends, notices, channel>>, stopping' = "gone" <=> stopping = "gone" PROVE TellInv'
BY DEF TellInv, ChannelRows, There, SendsAreOfNotices, CallsAreOfNotices, DueAreToldOrWaited, Told, Waiting, Lost

\* What is due to a new announcement is what it has listed.
LEMMA AnnounceKeeps == ASSUME TellInv, NEW t \in PTeams, NEW e \in NotifyEvents, Announce(t, e) PROVE TellInv'
<1>a. PICK n : n = Len(notices) + 1
  OBVIOUS
<1> DEFINE entries(c) == {[c |-> c, row |-> r] : r \in channel[c]}
           listed == UNION {entries(c) : c \in SentTo(t, e)}
<1>b. /\ \A x \in listed : x.c \in SentTo(t, e)
      /\ \A c \in SentTo(t, e) : \E x \in listed : x.c = c
      /\ \A x, y \in listed : x.c = y.c => x = y
  <2>1. \A c \in Channels : \A x \in entries(c) : x.c = c
    OBVIOUS
  <2>2. \A c \in SentTo(t, e) : c \in Channels /\ entries(c) # {}
    <3>1. ASSUME NEW c \in SentTo(t, e) PROVE c \in Channels /\ entries(c) # {}
      <4>1. PICK r : r \in channel[c] /\ c \in Channels
        BY <3>1 DEF SentTo
      <4>2. [c |-> c, row |-> r] \in entries(c)
        BY <4>1
      <4>3. QED BY <4>1, <4>2
    <3>2. QED BY <3>1
  <2>3. \A c \in Channels : \A x, y \in entries(c) : x = y
    BY DEF TellInv, ChannelRows
  <2> HIDE DEF entries
  <2>4. QED BY <2>1, <2>2, <2>3
<1>c. SentTo(t, e) \subseteq Channels /\ IsFiniteSet(SentTo(t, e))
  <2>1. SentTo(t, e) \subseteq There /\ SentTo(t, e) \subseteq Channels
    BY DEF SentTo, There
  <2>2. QED BY <2>1, FS_Subset DEF TellInv, ChannelRows
<1>1. /\ stopping # "gone" /\ UNCHANGED <<channel, sends, stopping>>
      /\ \/ /\ calls' = calls \cup {[n |-> n, left |-> listed]}
            /\ notices' = Append(notices, [team |-> t, due |-> SentTo(t, e), lost |-> {}, ended |-> <<>>])
         \/ calls' = calls /\ notices' = Append(notices, [team |-> t, due |-> {}, lost |-> {}, ended |-> <<>>])
  BY <1>a DEF Announce
<1> HIDE DEF listed, entries
<1> DEFINE Lists(due, extra) ==
               /\ \A call \in extra : /\ call = [n |-> call.n, left |-> call.left] /\ call.n = n
                                      /\ \A x \in call.left : x.c \in due
                                      /\ \A x, y \in call.left : x.c = y.c => x = y
               /\ \A call, other \in extra : call = other
               /\ \A c \in due : \E call \in extra : \E x \in call.left : x.c = c
<1>2. PICK due, extra :
          /\ due \in SUBSET Channels
          /\ calls' = calls \cup extra /\ notices' = Append(notices, [team |-> t, due |-> due, lost |-> {}, ended |-> <<>>])
          /\ IsFiniteSet(due) /\ Lists(due, extra)
  <2>1. CASE /\ calls' = calls \cup {[n |-> n, left |-> listed]}
             /\ notices' = Append(notices, [team |-> t, due |-> SentTo(t, e), lost |-> {}, ended |-> <<>>])
    <3>1. PICK call : call = [n |-> n, left |-> listed]
      OBVIOUS
    <3>2. call.n = n /\ call.left = listed /\ call = [n |-> call.n, left |-> call.left] /\ calls' = calls \cup {call}
      BY <2>1, <3>1
    <3>3. Lists(SentTo(t, e), {call})
      BY <1>b, <3>2
    <3> HIDE DEF Lists
    <3>4. QED BY <1>c, <2>1, <3>2, <3>3
  <2>2. CASE calls' = calls /\ notices' = Append(notices, [team |-> t, due |-> {}, lost |-> {}, ended |-> <<>>])
    <3>1. IsFiniteSet({}) /\ {} \in SUBSET Channels /\ calls' = calls \cup {}
      BY <2>2, FS_EmptySet
    <3>2. Lists({}, {})
      OBVIOUS
    <3> HIDE DEF Lists
    <3>3. QED BY <2>2, <3>1, <3>2
  <2>3. QED BY <1>1, <2>1, <2>2
<1> DEFINE notice == [team |-> t, due |-> due, lost |-> {}, ended |-> <<>>]
<1>3. /\ notice \in Notices /\ notice.due = due /\ notice.ended = <<>> /\ notice.lost = {}
      /\ notices' = Append(notices, notice)
  BY <1>2 DEF Notices
<1> HIDE DEF notice
<1>4. /\ notices' \in Seq(Notices) /\ DOMAIN notices' = DOMAIN notices \cup {n} /\ n \notin DOMAIN notices
      /\ notices'[n] = notice /\ \A i \in DOMAIN notices : notices'[i] = notices[i]
  <2>1. /\ notices' \in Seq(Notices) /\ Len(notices) \in Nat /\ DOMAIN notices = 1..Len(notices)
        /\ DOMAIN notices' = 1..n /\ notices'[n] = notice /\ \A i \in DOMAIN notices : notices'[i] = notices[i]
    BY <1>3, <1>a DEF TellInv
  <2>2. DOMAIN notices' = DOMAIN notices \cup {n} /\ n \notin DOMAIN notices
    BY <1>a, <2>1
  <2>3. QED BY <2>1, <2>2
<1>5. /\ \A s \in sends : s.n # n
      /\ \A call \in calls : call.n # n
  BY <1>4 DEF TellInv, SendsAreOfNotices, CallsAreOfNotices
<1>6. SendsAreOfNotices'
  BY <1>1, <1>4 DEF TellInv, SendsAreOfNotices
<1>7. CallsAreOfNotices'
  <2>1. ASSUME NEW call \in calls'
        PROVE  /\ call = [n |-> call.n, left |-> call.left] /\ call.n \in DOMAIN notices' /\ \A x \in call.left : x.c \in Channels
               /\ \A x, y \in call.left : x.c = y.c => x = y
    BY <1>2, <1>4 DEF TellInv, CallsAreOfNotices
  <2>2. \A call, other \in calls' : call.n = other.n => call = other
    BY <1>2, <1>5 DEF TellInv, CallsAreOfNotices
  <2>3. QED BY <2>1, <2>2 DEF CallsAreOfNotices
<1>8. DueAreToldOrWaited'
  <2>1. ASSUME NEW i \in DOMAIN notices
        PROVE  /\ EachOneWay(Told(i)', Waiting(i)', Lost(i)', notices'[i].lost, notices'[i].due)
               /\ Len(notices'[i].ended) = Cardinality(Told(i)')
    <3>1. i # n
      BY <1>4
    <3>2. Told(i)' = Told(i) /\ Waiting(i)' = Waiting(i)
      BY <1>1, <1>4 DEF Told, Waiting
    <3>3. Lost(i)' = Lost(i)
      BY <1>2, <3>1 DEF Lost
    <3>4. QED BY <1>4, <3>2, <3>3 DEF TellInv, DueAreToldOrWaited
  <2>2. Told(n)' = {}
    BY <1>3, <1>4 DEF Told, ToSet
  <2>3. Waiting(n)' = {}
    BY <1>1, <1>5 DEF Waiting
  <2>4. Lost(n)' = due
    <3>1. Lost(n)' = UNION {{x.c : x \in call.left} : call \in extra}
      BY <1>2, <1>5 DEF Lost
    <3>2. UNION {{x.c : x \in call.left} : call \in extra} = due
      BY <1>2
    <3>3. QED BY <3>1, <3>2
  <2>5. /\ EachOneWay(Told(n)', Waiting(n)', Lost(n)', notices'[n].lost, notices'[n].due)
        /\ Len(notices'[n].ended) = Cardinality(Told(n)')
    BY <1>2, <1>3, <1>4, <2>2, <2>3, <2>4, FS_EmptySet DEF EachOneWay
  <2>6. \A i \in DOMAIN notices' : i = n \/ i \in DOMAIN notices
    BY <1>4
  <2>7. QED BY <2>1, <2>5, <2>6 DEF DueAreToldOrWaited
<1>9. ChannelRows'
  BY <1>1 DEF TellInv, ChannelRows, There
<1>10. \A i \in DOMAIN notices' : notices'[i].lost = {}
  BY <1>1, <1>3, <1>4 DEF TellInv
<1>11. QED BY <1>1, <1>4, <1>6, <1>7, <1>8, <1>9, <1>10 DEF TellInv

\* A channel moves from the list to a goroutine, or out of what is due.
LEMMA HandOverKeeps == ASSUME TellInv, NEW call \in calls, NEW x \in call.left, HandOver(call, x) PROVE TellInv'
<1>1. PICK n, c : n = call.n /\ c = x.c
  OBVIOUS
<1> DEFINE rest == [call EXCEPT !.left = @ \ {x}]
           send == [n |-> n, c |-> c, kind |-> x.row.kind, host |-> FillSMTPFromSettings(x.row)]
<1>2. /\ stopping # "gone" /\ calls' = (calls \ {call}) \cup {rest} /\ UNCHANGED <<channel, stopping>>
      /\ \/ sends' = sends \cup {send} /\ UNCHANGED notices
         \/ UNCHANGED sends /\ notices' = [notices EXCEPT ![n].due = @ \ {c}]
  BY <1>1 DEF HandOver, GoesOn
<1>3. /\ call = [n |-> call.n, left |-> call.left] /\ n \in DOMAIN notices /\ c \in Channels /\ notices \in Seq(Notices)
      /\ \A y \in call.left : y.c \in Channels
      /\ \A y, z \in call.left : y.c = z.c => y = z
  BY <1>1 DEF TellInv, CallsAreOfNotices
<1>4. rest = [n |-> rest.n, left |-> rest.left] /\ rest.n = n /\ rest.left = call.left \ {x} /\ send.n = n /\ send.c = c
  <2>1. PICK left : left = call.left
    OBVIOUS
  <2>2. call = [n |-> n, left |-> left]
    BY <1>1, <1>3, <2>1
  <2>3. rest = [n |-> n, left |-> left \ {x}]
    BY <2>2
  <2>4. QED BY <2>1, <2>3
<1> HIDE DEF rest, send
<1>5. \A other \in calls : other.n = n => other = call
  BY <1>1 DEF TellInv, CallsAreOfNotices
<1>6. /\ \A i : i # n => Lost(i)' = Lost(i)
      /\ Lost(n) = {y.c : y \in call.left} /\ Lost(n)' = {y.c : y \in call.left \ {x}}
  <2>1. \A i : i # n => {k \in calls' : k.n = i} = {k \in calls : k.n = i}
    BY <1>1, <1>2, <1>4
  <2>2. {k \in calls : k.n = n} = {call} /\ {k \in calls' : k.n = n} = {rest}
    BY <1>1, <1>2, <1>4, <1>5
  <2>3. \A i : i # n => Lost(i)' = Lost(i)
    BY <2>1 DEF Lost
  <2>4. Lost(n) = UNION {{y.c : y \in k.left} : k \in {call}} /\ Lost(n)' = UNION {{y.c : y \in k.left} : k \in {rest}}
    BY <2>2 DEF Lost
  <2>5. UNION {{y.c : y \in k.left} : k \in {call}} = {y.c : y \in call.left}
    OBVIOUS
  <2>6. UNION {{y.c : y \in k.left} : k \in {rest}} = {y.c : y \in rest.left}
    OBVIOUS
  <2>7. QED BY <1>4, <2>3, <2>4, <2>5, <2>6
<1>7. c \in Lost(n) /\ Lost(n)' = Lost(n) \ {c}
  BY <1>1, <1>3, <1>6
<1>8. /\ EachOneWay(Told(n), Waiting(n), Lost(n), notices[n].lost, notices[n].due)
      /\ Len(notices[n].ended) = Cardinality(Told(n)) /\ \A i \in DOMAIN notices : notices[i].lost = {}
  BY <1>2, <1>3 DEF TellInv, DueAreToldOrWaited
<1>9. CASE sends' = sends \cup {send} /\ UNCHANGED notices
  <2>1. \A i : Told(i)' = Told(i)
    BY <1>9 DEF Told
  <2>2. (\A i : i # n => Waiting(i)' = Waiting(i)) /\ Waiting(n)' = Waiting(n) \cup {c}
    BY <1>4, <1>9 DEF Waiting
  <2>3. c \notin Waiting(n)
    BY <1>7, <1>8 DEF EachOneWay
  <2>4. SendsAreOfNotices'
    <3>1. \A s \in sends : ~(s.n = n /\ s.c = c)
      BY <2>3 DEF Waiting
    <3>2. QED BY <1>3, <1>4, <1>9, <3>1 DEF TellInv, SendsAreOfNotices
  <2>5. CallsAreOfNotices'
    BY <1>1, <1>2, <1>3, <1>4, <1>5, <1>9 DEF TellInv, CallsAreOfNotices
  <2>6. EachOneWay(Told(n)', Waiting(n)', Lost(n)', notices'[n].lost, notices'[n].due)
    BY <1>7, <1>8, <1>9, <2>1, <2>2 DEF EachOneWay
  <2>7. DueAreToldOrWaited'
    <3>1. ASSUME NEW i \in DOMAIN notices, i # n
          PROVE  /\ EachOneWay(Told(i)', Waiting(i)', Lost(i)', notices'[i].lost, notices'[i].due)
                 /\ Len(notices'[i].ended) = Cardinality(Told(i)')
      BY <1>6, <1>9, <2>1, <2>2, <3>1 DEF TellInv, DueAreToldOrWaited
    <3>2. QED BY <1>8, <1>9, <2>1, <2>6, <3>1 DEF DueAreToldOrWaited
  <2>8. ChannelRows'
    BY <1>2 DEF TellInv, ChannelRows, There
  <2>9. QED BY <1>2, <1>3, <1>8, <1>9, <2>4, <2>5, <2>7, <2>8 DEF TellInv
<1>10. CASE UNCHANGED sends /\ notices' = [notices EXCEPT ![n].due = @ \ {c}]
  <2>0. notices[n] \in Notices /\ notices[n].due \in SUBSET Channels
    <3>1. notices[n] \in Notices
      BY <1>3
    <3>2. QED BY <3>1 DEF Notices
  <2>1. /\ DOMAIN notices' = DOMAIN notices /\ notices'[n] = [notices[n] EXCEPT !.due = notices[n].due \ {c}]
        /\ \A i \in DOMAIN notices : i # n => notices'[i] = notices[i]
    BY <1>3, <1>10
  <2>2. /\ notices'[n] \in Notices /\ notices'[n].due = notices[n].due \ {c} /\ notices'[n].lost = notices[n].lost
        /\ notices'[n].ended = notices[n].ended
    BY <2>0, <2>1 DEF Notices
  <2>3. notices' \in Seq(Notices)
    <3>1. Len(notices) \in Nat /\ DOMAIN notices = 1..Len(notices) /\ \A i \in 1..Len(notices) : notices[i] \in Notices
      BY <1>3
    <3>2. notices' \in [1..Len(notices) -> Notices]
      BY <1>10, <2>1, <2>2, <3>1
    <3>3. QED BY <3>1, <3>2
  <2>4. /\ \A i \in DOMAIN notices : Told(i)' = Told(i)
        /\ \A i : Waiting(i)' = Waiting(i)
    BY <1>10, <2>1, <2>2 DEF Told, Waiting
  <2>5. IsFiniteSet(notices[n].due \ {c})
    BY <1>8, FS_Subset DEF EachOneWay
  <2>6. EachOneWay(Told(n)', Waiting(n)', Lost(n)', notices'[n].lost, notices'[n].due)
    BY <1>3, <1>7, <1>8, <2>2, <2>4, <2>5 DEF EachOneWay
  <2>7. DueAreToldOrWaited'
    <3>1. ASSUME NEW i \in DOMAIN notices, i # n
          PROVE  /\ EachOneWay(Told(i)', Waiting(i)', Lost(i)', notices'[i].lost, notices'[i].due)
                 /\ Len(notices'[i].ended) = Cardinality(Told(i)')
      BY <1>6, <2>1, <2>4, <3>1 DEF TellInv, DueAreToldOrWaited
    <3>2. Len(notices'[n].ended) = Cardinality(Told(n)')
      BY <1>3, <1>8, <2>2, <2>4
    <3>3. QED BY <2>1, <2>6, <3>1, <3>2 DEF DueAreToldOrWaited
  <2>8. SendsAreOfNotices' /\ ChannelRows'
    BY <1>2, <1>10, <2>1 DEF TellInv, SendsAreOfNotices, ChannelRows, There
  <2>9. CallsAreOfNotices'
    BY <1>1, <1>2, <1>3, <1>4, <1>5, <2>1 DEF TellInv, CallsAreOfNotices
  <2>10. QED BY <1>2, <1>8, <2>1, <2>2, <2>3, <2>7, <2>8, <2>9 DEF TellInv
<1>11. QED BY <1>2, <1>9, <1>10

\* What the process takes with it is what was left of the lists.
LEMMA GoingKeeps == ASSUME TellInv, Wait PROVE TellInv'
<1>1. /\ stopping = "waiting" /\ sends = {} /\ stopping' = "gone" /\ calls' = {} /\ UNCHANGED <<channel, sends>>
      /\ notices' = [n \in DOMAIN notices |-> [notices[n] EXCEPT !.lost = Lost(n)]]
  BY DEF Wait
<1>2. Len(notices) \in Nat /\ DOMAIN notices = 1..Len(notices) /\ \A i \in 1..Len(notices) : notices[i] \in Notices
  BY DEF TellInv
<1>3. \A i : Lost(i) \subseteq Channels
  BY DEF Lost, TellInv, CallsAreOfNotices
<1>4. ASSUME NEW i \in 1..Len(notices)
      PROVE  /\ notices'[i] \in Notices /\ notices'[i].lost = Lost(i) /\ notices'[i].due = notices[i].due
             /\ notices'[i].ended = notices[i].ended
  BY <1>1, <1>2, <1>3 DEF Notices
<1>5. notices' \in Seq(Notices)
  <2>1. notices' \in [1..Len(notices) -> Notices]
    BY <1>1, <1>2, <1>4
  <2>2. QED BY <1>2, <2>1
<1>6. DueAreToldOrWaited'
  <2>1. ASSUME NEW i \in DOMAIN notices
        PROVE  /\ EachOneWay(Told(i)', Waiting(i)', Lost(i)', notices'[i].lost, notices'[i].due)
               /\ Len(notices'[i].ended) = Cardinality(Told(i)')
    <3>1. Told(i)' = Told(i) /\ Waiting(i)' = Waiting(i) /\ Lost(i)' = {}
      BY <1>1, <1>2, <1>4 DEF Told, Waiting, Lost
    <3>2. EachOneWay(Told(i), Waiting(i), Lost(i), {}, notices[i].due) /\ Len(notices[i].ended) = Cardinality(Told(i))
      BY <1>1 DEF TellInv, DueAreToldOrWaited
    <3>3. QED BY <1>2, <1>4, <3>1, <3>2 DEF EachOneWay
  <2>2. QED BY <1>1, <2>1 DEF DueAreToldOrWaited
<1>7. SendsAreOfNotices' /\ CallsAreOfNotices' /\ ChannelRows'
  BY <1>1 DEF TellInv, SendsAreOfNotices, CallsAreOfNotices, ChannelRows, There
<1>8. QED BY <1>1, <1>5, <1>6, <1>7 DEF TellInv

LEMMA SendEndsKeeps == ASSUME TellInv, NEW s \in sends, NEW answer \in BOOLEAN, SendEnds(s, answer) PROVE TellInv'
<1> DEFINE newEnd == [c |-> s.c, how |-> Send(s.kind, s.host, answer)]
<1>1. PICK k : k = s.n
  OBVIOUS
<1>2. PICK ended : ended = Append(notices[k].ended, newEnd)
  OBVIOUS
<1>3. /\ sends' = sends \ {s} /\ notices' = [notices EXCEPT ![k].ended = ended] /\ UNCHANGED <<channel, calls, stopping>>
  BY <1>1, <1>2 DEF SendEnds
<1>4. k \in DOMAIN notices /\ s.c \in Channels /\ notices \in Seq(Notices)
  BY <1>1 DEF TellInv, SendsAreOfNotices
<1>5. newEnd \in Endings /\ newEnd.c = s.c
  BY <1>4 DEF Endings, Outcomes, Send, Call, SendEmail
<1> HIDE DEF newEnd
<1>6. /\ notices[k] \in Notices /\ notices[k].ended \in Seq(Endings)
  <2>1. notices[k] \in Notices
    BY <1>4
  <2>2. QED BY <2>1 DEF Notices
<1>7. /\ ToSet(ended) = ToSet(notices[k].ended) \cup {newEnd} /\ ended \in Seq(Endings)
      /\ Len(ended) = Len(notices[k].ended) + 1
  BY <1>2, <1>5, <1>6, Appended
<1>8. /\ DOMAIN notices' = DOMAIN notices /\ notices'[k] = [notices[k] EXCEPT !.ended = ended]
      /\ \A i \in DOMAIN notices : i # k => notices'[i] = notices[i]
  BY <1>3, <1>4
<1>9. notices'[k] \in Notices /\ notices'[k].ended = ended /\ notices'[k].due = notices[k].due /\ notices'[k].lost = notices[k].lost
  BY <1>6, <1>7, <1>8 DEF Notices
<1>10. notices' \in Seq(Notices)
  <2>1. Len(notices) \in Nat /\ DOMAIN notices = 1..Len(notices) /\ \A i \in 1..Len(notices) : notices[i] \in Notices
    BY <1>4
  <2>2. notices' \in [1..Len(notices) -> Notices]
    BY <1>3, <1>8, <1>9, <2>1
  <2>3. QED BY <2>1, <2>2
<1>11. SendsAreOfNotices' /\ CallsAreOfNotices'
  BY <1>3, <1>8 DEF TellInv, SendsAreOfNotices, CallsAreOfNotices
<1>12. s.c \in Waiting(k) /\ s.c \notin Told(k)
  BY <1>1, <1>4 DEF TellInv, DueAreToldOrWaited, Waiting, EachOneWay
<1>13. Told(k)' = Told(k) \cup {s.c}
  BY <1>5, <1>7, <1>9 DEF Told
<1>14. Waiting(k)' = Waiting(k) \ {s.c}
  BY <1>1, <1>3 DEF TellInv, SendsAreOfNotices, Waiting
<1>15. DueAreToldOrWaited'
  <2>0. \A i : Lost(i)' = Lost(i)
    BY <1>3 DEF Lost
  <2>1. ASSUME NEW i \in DOMAIN notices, i # k
        PROVE  /\ EachOneWay(Told(i)', Waiting(i)', Lost(i)', notices'[i].lost, notices'[i].due)
               /\ Len(notices'[i].ended) = Cardinality(Told(i)')
    <3>1. Told(i)' = Told(i) /\ Waiting(i)' = Waiting(i)
      BY <1>1, <1>3, <1>8, <2>1 DEF Told, Waiting
    <3>2. QED BY <1>8, <2>0, <2>1, <3>1 DEF TellInv, DueAreToldOrWaited
  <2>2. /\ EachOneWay(Told(k), Waiting(k), Lost(k), notices[k].lost, notices[k].due)
        /\ Len(notices[k].ended) = Cardinality(Told(k))
    BY <1>4 DEF TellInv, DueAreToldOrWaited
  <2>3. IsFiniteSet(Told(k))
    BY <2>2, FS_Subset DEF EachOneWay
  <2>4. Cardinality(Told(k)') = Cardinality(Told(k)) + 1
    BY <1>12, <1>13, <2>3, FS_AddElement
  <2>5. EachOneWay(Told(k)', Waiting(k)', Lost(k)', notices'[k].lost, notices'[k].due)
    BY <1>9, <1>12, <1>13, <1>14, <2>0, <2>2 DEF EachOneWay
  <2>6. Len(notices'[k].ended) = Cardinality(Told(k)')
    BY <1>7, <1>9, <2>2, <2>4
  <2>7. QED BY <1>8, <2>1, <2>5, <2>6 DEF DueAreToldOrWaited
<1>16. /\ ChannelRows' /\ (stopping' = "gone" => sends' = {} /\ calls' = {})
       /\ stopping' # "gone" => \A i \in DOMAIN notices' : notices'[i].lost = {}
  <2>1. ChannelRows' /\ (stopping' = "gone" => sends' = {} /\ calls' = {})
    BY <1>3 DEF TellInv, ChannelRows, There
  <2>2. ASSUME stopping' # "gone", NEW i \in DOMAIN notices PROVE notices'[i].lost = {}
    BY <1>3, <1>8, <1>9, <2>2 DEF TellInv
  <2>3. QED BY <1>8, <2>1, <2>2
<1>17. QED BY <1>10, <1>11, <1>15, <1>16 DEF TellInv

LEMMA TellStepKeeps == ASSUME TellInv, NotifyNext PROVE TellInv'
<1>0. CASE Wait
  BY <1>0, GoingKeeps
<1>a. ASSUME NEW call \in calls, NEW x \in call.left, HandOver(call, x) PROVE TellInv'
  BY <1>a, HandOverKeeps
<1>1. CASE Stop \/ SaveSMTP
  <2>1. UNCHANGED <<calls, sends, notices, channel>> /\ (stopping' = "gone" <=> stopping = "gone")
    BY <1>1 DEF Stop, SaveSMTP, TellInv
  <2>2. QED BY <2>1, ElseTellKeeps
<1>2. ASSUME NEW s \in sends, NEW answer \in BOOLEAN, SendEnds(s, answer) PROVE TellInv'
  BY <1>2, SendEndsKeeps
<1>3. ASSUME NEW c \in Channels, DeleteChannel(c) PROVE TellInv'
  <2>1. channel' = [channel EXCEPT ![c] = {}] /\ UNCHANGED <<calls, sends, notices, stopping>>
    BY <1>3 DEF DeleteChannel
  <2>2. QED BY <2>1, ChannelChangeKeeps
<1>4. ASSUME NEW c \in Channels, KeyIsLost(c) PROVE TellInv'
  <2>1. PICK r \in channel[c] : channel' = [channel EXCEPT ![c] = {[r EXCEPT !.opens = FALSE]}]
    BY <1>4 DEF KeyIsLost
  <2>2. PICK x : x = [r EXCEPT !.opens = FALSE]
    OBVIOUS
  <2>3. channel' = [channel EXCEPT ![c] = {x}] /\ UNCHANGED <<calls, sends, notices, stopping>>
    BY <1>4, <2>1, <2>2 DEF KeyIsLost
  <2>4. QED BY <2>3, ChannelChangeKeeps
<1>5. ASSUME NEW c \in Channels, NEW answer \in BOOLEAN, TestChannel(c, answer) PROVE TellInv'
  <2>1. UNCHANGED <<calls, sends, notices, channel, stopping>>
    BY <1>5 DEF TestChannel
  <2>2. QED BY <2>1, ElseTellKeeps DEF TellInv
<1>6. ASSUME NEW c \in Channels, NEW answer \in BOOLEAN, NEW d \in Drafts, CreateChannel(c, d, answer) PROVE TellInv'
  <2>1. PICK x : channel' = [channel EXCEPT ![c] = {x}]
    BY <1>6 DEF CreateChannel
  <2>2. UNCHANGED <<calls, sends, notices, stopping>>
    BY <1>6 DEF CreateChannel
  <2>3. QED BY <2>1, <2>2, ChannelChangeKeeps
<1>7. ASSUME NEW t \in PTeams, NEW e \in NotifyEvents, Announce(t, e) PROVE TellInv'
  BY <1>7, AnnounceKeeps
<1>8. QED BY <1>0, <1>a, <1>1, <1>2, <1>3, <1>4, <1>5, <1>6, <1>7 DEF NotifyNext, NotifyStep

\* A panel that has stopped has told every channel that was due, once, whatever was made,
\* deleted or refused meanwhile, except those an announcement under way had not yet handed
\* to a goroutine when the process went (Notify, Wait).
THEOREM GoneMeansToldAlways == NotifySpec => []GoneMeansTold
<1>1. NotifyInit => TellInv
  BY TellStart
<1>2. TellInv /\ [(PluginNext /\ UNCHANGED notifyVars) \/ (NotifyNext /\ UNCHANGED pluginVars)]_<<pluginVars, notifyVars>>
      => TellInv'
  <2>1. ASSUME TellInv, UNCHANGED notifyVars PROVE TellInv'
    <3>1. UNCHANGED <<calls, sends, notices, channel, stopping>>
      BY <2>1 DEF notifyVars
    <3>2. QED BY <2>1, <3>1, ElseTellKeeps DEF TellInv
  <2>2. QED BY <2>1, TellStepKeeps
<1>3. TellInv => GoneMeansTold
  <2>1. ASSUME TellInv, stopping = "gone", NEW i \in DOMAIN notices
        PROVE  /\ Told(i) = notices[i].due \ notices[i].lost
               /\ Len(notices[i].ended) = Cardinality(notices[i].due \ notices[i].lost)
    <3>1. Waiting(i) = {} /\ Lost(i) = {}
      BY <2>1 DEF TellInv, Waiting, Lost
    <3>2. QED BY <2>1, <3>1 DEF TellInv, DueAreToldOrWaited, EachOneWay
  <2>2. QED BY <2>1 DEF GoneMeansTold, Told
<1>4. QED BY <1>1, <1>2, <1>3, PTL DEF NotifySpec

-----------------------------------------------------------------------------
(***************************************************************************)
(* The inductive invariant.  A retention pass works from a list that may   *)
(* be old: rows finish, fail and are deleted by other passes while it goes *)
(* on.  What stays true of a row in such a list is that its Job is over    *)
(* and that enough newer backups have succeeded since (ever only grows).   *)
(***************************************************************************)
Listed(b) == row[b] \notin {"none", "gone"}

\* Enough backups that are not older have succeeded for b to be let go.
Retired(b) == Cardinality(Newer(b)) > Retention

\* Another backup was given b's location.
Shared(b) == \E m \in Ids : m # b /\ row[m] # "none" /\ at[m] = at[b]

\* How far a backup is tells what its row and its Job say.
ProgressInv ==
    \A b \in Ids :
        /\ row[b] = "none" => pc[b] = "off" /\ job[b] = "none"
        /\ pc[b] \in {"start", "wait"} => row[b] = "running"
        /\ pc[b] = "start" => job[b] = "none"
        /\ pc[b] = "finish" => job[b] = "done"
        /\ job[b] = "running" => row[b] \in {"running", "failed"}
        /\ row[b] = "succeeded" => b \in ever /\ job[b] = "done"

\* However old the list, what is in it may go.
ExpiredInv ==
    \A b, m \in Ids : m \in expired[b] =>
        job[m] = "done" /\ pc[m] \notin {"start", "wait"} /\ Retired(m)

\* What was uploaded is in the bucket, or it was let go, or another backup
\* had the same location.
UploadedInv ==
    \A b \in Ids : job[b] = "done" => at[b] \in bucket \/ Retired(b) \/ Shared(b)

\* Every object has a row that no pass is about to delete.
Doomed(b) == \E c \in Ids : pc[c] = "delete" /\ IsNext(c, b)
ListedInv ==
    \A l \in bucket : \E b \in Ids : at[b] = l /\ Listed(b) /\ ~Doomed(b)

IInv == TypeOK /\ ProgressInv /\ ExpiredInv /\ UploadedInv /\ ListedInv

-----------------------------------------------------------------------------
\* The backups are finitely many, so counting them makes sense.
LEMMA SubsetsOfIds ==
    ASSUME NEW S, S \subseteq Ids
    PROVE  IsFiniteSet(S) /\ Cardinality(S) \in Nat
<1>1. IsFiniteSet(Ids)
  BY MaxBackupsAssumption, FS_Interval DEF Ids
<1>2. QED
  BY <1>1, FS_Subset, FS_CardinalityType

\* FinishBackup only adds to what has succeeded: what may go, may go later.
LEMMA RetiredStays ==
    ASSUME TypeOK', ever \subseteq ever', NEW b \in Ids, Retired(b)
    PROVE  Retired(b)'
<1>1. Newer(b) \subseteq Newer(b)' /\ Newer(b)' \subseteq Ids /\ Newer(b) \subseteq Ids
  BY DEF Newer, TypeOK
<1>2. Cardinality(Newer(b)) \in Nat /\ Cardinality(Newer(b)') \in Nat
  BY <1>1, SubsetsOfIds
<1>3. Cardinality(Newer(b)) <= Cardinality(Newer(b)')
  BY <1>1, SubsetsOfIds, FS_Subset
<1>4. Cardinality(Newer(b)') = Cardinality(Newer(b))'
  OBVIOUS
<1>5. QED
  BY <1>2, <1>3, <1>4, RetentionAssumption DEF Retired

\* ExpiredBackups skips the newest Retention rows that succeeded.
LEMMA ExpiredAreRetired ==
    ASSUME TypeOK, ProgressInv, NEW b \in ExpiredBackups
    PROVE  b \in Ids /\ job[b] = "done" /\ pc[b] \notin {"start", "wait"} /\ Retired(b)
<1> DEFINE NoOlder == {m \in Ids : Succeeded(m) /\ m >= b}
<1>1. b \in Ids /\ job[b] = "done" /\ pc[b] \notin {"start", "wait"}
  BY DEF ExpiredBackups, Succeeded, ProgressInv
<1>2. NoOlder \subseteq Newer(b) /\ Newer(b) \subseteq Ids /\ NoOlder \subseteq Ids
  BY DEF Newer, TypeOK, ProgressInv, Succeeded
<1>3. Cardinality(NoOlder) \in Nat /\ Cardinality(Newer(b)) \in Nat
  BY <1>2, SubsetsOfIds
<1>4. Cardinality(NoOlder) <= Cardinality(Newer(b))
  BY <1>2, SubsetsOfIds, FS_Subset
<1>5. Cardinality(NoOlder) > Retention
  BY DEF ExpiredBackups, Rank
<1>6. QED
  BY <1>1, <1>3, <1>4, <1>5, RetentionAssumption DEF Retired

\* Nothing is taken, listed or uploaded at first.
LEMMA InitInv == Init => IInv
BY DEF Init, IInv, TypeOK, ProgressInv, ExpiredInv, UploadedInv, ListedInv

\* The invariant survives every step of the goroutines and of the Jobs.
LEMMA StepInv == IInv /\ [Next]_vars => IInv'
<1> SUFFICES ASSUME IInv, [Next]_vars PROVE IInv'
  OBVIOUS
<1> USE DEF IInv, Goto
<1>1. ASSUME NEW b \in Ids, Run(b) PROVE IInv'
  <2>1. TypeOK'
    BY <1>1 DEF Run, TypeOK, Ids
  <2>2. \A m \in Ids : Retired(m) => Retired(m)'
    BY <1>1, <2>1, RetiredStays DEF Run
  <2>3. ProgressInv'
    BY <1>1 DEF Run, TypeOK, ProgressInv
  <2>4. ExpiredInv'
    BY <1>1, <2>2 DEF Run, TypeOK, ExpiredInv, ProgressInv
  <2> DEFINE Others == Ids \ {b}
  <2>a. /\ \A m \in Others : at'[m] = at[m] /\ row'[m] = row[m] /\ pc'[m] = pc[m]
        /\ row[b] = "none" /\ row'[b] = "running" /\ pc'[b] = "start" /\ pc[b] = "off"
        /\ job[b] = "none" /\ UNCHANGED <<expired, job, bucket>>
    BY <1>1 DEF Run, TypeOK, ProgressInv
  <2>b. \A m \in Others : Shared(m) => Shared(m)'
    BY <2>a DEF Shared
  <2>5. UploadedInv'
    <3> SUFFICES ASSUME NEW m \in Ids, job'[m] = "done"
                 PROVE  (at[m] \in bucket \/ Retired(m) \/ Shared(m))'
      BY DEF UploadedInv
    <3>1. m \in Others
      BY <2>a
    <3>2. QED
      BY <2>a, <2>b, <2>2, <3>1 DEF UploadedInv
  <2>6. ListedInv'
    <3> SUFFICES ASSUME NEW l \in bucket
                 PROVE  \E m \in Ids : at'[m] = l /\ Listed(m)' /\ ~Doomed(m)'
      BY <2>a DEF ListedInv
    <3>1. PICK m \in Ids : at[m] = l /\ Listed(m) /\ ~Doomed(m)
      BY DEF ListedInv
    <3>2. m \in Others
      BY <2>a, <3>1 DEF Listed
    <3>3. ~Doomed(m)'
      BY <2>a, <3>1 DEF Doomed, IsNext
    <3>4. QED
      BY <2>a, <3>1, <3>2, <3>3 DEF Listed
  <2>7. QED
    BY <2>1, <2>3, <2>4, <2>5, <2>6
<1>2. ASSUME NEW b \in Ids, StartJob(b) PROVE IInv'
  <2>1. TypeOK'
    BY <1>2 DEF StartJob, TypeOK
  <2>2. \A m \in Ids : Retired(m) => Retired(m)'
    BY <1>2, <2>1, RetiredStays DEF StartJob
  <2>3. ProgressInv'
    BY <1>2 DEF StartJob, TypeOK, ProgressInv
  <2>4. ExpiredInv'
    BY <1>2, <2>2 DEF StartJob, TypeOK, ExpiredInv, ProgressInv
  <2>5. UploadedInv'
    BY <1>2, <2>2 DEF StartJob, TypeOK, UploadedInv, Shared, ProgressInv
  <2>6. ListedInv'
    BY <1>2 DEF StartJob, TypeOK, ListedInv, Listed, Doomed, IsNext
  <2>7. QED
    BY <2>1, <2>3, <2>4, <2>5, <2>6
<1>3. ASSUME NEW b \in Ids, JobUploads(b) PROVE IInv'
  <2>1. TypeOK'
    BY <1>3 DEF JobUploads, TypeOK
  <2>2. \A m \in Ids : Retired(m) => Retired(m)'
    BY <1>3, <2>1, RetiredStays DEF JobUploads
  <2>3. ProgressInv'
    BY <1>3 DEF JobUploads, TypeOK, ProgressInv
  <2>4. ExpiredInv'
    BY <1>3, <2>2 DEF JobUploads, TypeOK, ExpiredInv
  <2>5. UploadedInv'
    BY <1>3, <2>2 DEF JobUploads, TypeOK, UploadedInv, Shared, ProgressInv
  <2>6. ListedInv'
    BY <1>3 DEF JobUploads, TypeOK, ListedInv, Listed, Doomed, IsNext, ProgressInv, ExpiredInv
  <2>7. QED
    BY <2>1, <2>3, <2>4, <2>5, <2>6
<1>4. ASSUME NEW b \in Ids, JobFails(b) PROVE IInv'
  <2>1. TypeOK'
    BY <1>4 DEF JobFails, TypeOK
  <2>2. \A m \in Ids : Retired(m) => Retired(m)'
    BY <1>4, <2>1, RetiredStays DEF JobFails
  <2>3. ProgressInv'
    BY <1>4 DEF JobFails, TypeOK, ProgressInv
  <2>4. ExpiredInv'
    BY <1>4, <2>2 DEF JobFails, TypeOK, ExpiredInv
  <2>5. UploadedInv'
    BY <1>4, <2>2 DEF JobFails, TypeOK, UploadedInv, Shared, ProgressInv
  <2>6. ListedInv'
    BY <1>4 DEF JobFails, TypeOK, ListedInv, Listed, Doomed, IsNext
  <2>7. QED
    BY <2>1, <2>3, <2>4, <2>5, <2>6
<1>5. ASSUME NEW b \in Ids, WaitForJob(b) PROVE IInv'
  <2>1. TypeOK'
    BY <1>5 DEF WaitForJob, TypeOK
  <2>2. \A m \in Ids : Retired(m) => Retired(m)'
    BY <1>5, <2>1, RetiredStays DEF WaitForJob
  <2>3. ProgressInv'
    BY <1>5 DEF WaitForJob, TypeOK, ProgressInv
  <2>4. ExpiredInv'
    BY <1>5, <2>2 DEF WaitForJob, TypeOK, ExpiredInv
  <2>5. UploadedInv'
    BY <1>5, <2>2 DEF WaitForJob, TypeOK, UploadedInv, Shared, ProgressInv
  <2>6. ListedInv'
    BY <1>5 DEF WaitForJob, TypeOK, ListedInv, Listed, Doomed, IsNext
  <2>7. QED
    BY <2>1, <2>3, <2>4, <2>5, <2>6
<1>6. ASSUME NEW b \in Ids, Finish(b) PROVE IInv'
  <2> USE DEF EndNotRecorded
  <2>1. TypeOK'
    BY <1>6 DEF Finish, TypeOK
  <2>2. \A m \in Ids : Retired(m) => Retired(m)'
    BY <1>6, <2>1, RetiredStays DEF Finish
  <2>3. ProgressInv'
    BY <1>6 DEF Finish, TypeOK, ProgressInv
  <2>4. ExpiredInv'
    BY <1>6, <2>2 DEF Finish, TypeOK, ExpiredInv
  <2>5. UploadedInv'
    BY <1>6, <2>2 DEF Finish, TypeOK, UploadedInv, Shared, ProgressInv
  <2>6. ListedInv'
    BY <1>6 DEF Finish, TypeOK, ListedInv, Listed, Doomed, IsNext
  <2>7. QED
    BY <2>1, <2>3, <2>4, <2>5, <2>6
<1>7. ASSUME NEW b \in Ids, Fail(b) PROVE IInv'
  <2> USE DEF EndNotRecorded
  <2>1. TypeOK'
    BY <1>7 DEF Fail, TypeOK
  <2>2. \A m \in Ids : Retired(m) => Retired(m)'
    BY <1>7, <2>1, RetiredStays DEF Fail
  <2>3. ProgressInv'
    BY <1>7 DEF Fail, TypeOK, ProgressInv
  <2>4. ExpiredInv'
    BY <1>7, <2>2 DEF Fail, TypeOK, ExpiredInv
  <2>5. UploadedInv'
    BY <1>7, <2>2 DEF Fail, TypeOK, UploadedInv, Shared, ProgressInv
  <2>6. ListedInv'
    BY <1>7 DEF Fail, TypeOK, ListedInv, Listed, Doomed, IsNext
  <2>7. QED
    BY <2>1, <2>3, <2>4, <2>5, <2>6
<1>8. ASSUME NEW b \in Ids, ListExpired(b) PROVE IInv'
  <2>1. TypeOK'
    BY <1>8 DEF ListExpired, TypeOK, ExpiredBackups
  <2>2. \A m \in Ids : Retired(m) => Retired(m)'
    BY <1>8, <2>1, RetiredStays DEF ListExpired
  <2>3. ProgressInv'
    BY <1>8 DEF ListExpired, TypeOK, ProgressInv
  <2>4. ExpiredInv'
    BY <1>8, <2>2, ExpiredAreRetired DEF ListExpired, TypeOK, ExpiredInv
  <2>5. UploadedInv'
    BY <1>8, <2>2 DEF ListExpired, TypeOK, UploadedInv, Shared, ProgressInv
  <2>6. ListedInv'
    BY <1>8 DEF ListExpired, TypeOK, ListedInv, Listed, Doomed, IsNext
  <2>7. QED
    BY <2>1, <2>3, <2>4, <2>5, <2>6
<1>9. ASSUME NEW b \in Ids, RemoveObject(b) PROVE IInv'
  <2>1. TypeOK'
    BY <1>9 DEF RemoveObject, TypeOK
  <2>2. \A m \in Ids : Retired(m) => Retired(m)'
    BY <1>9, <2>1, RetiredStays DEF RemoveObject
  <2>3. ProgressInv'
    BY <1>9 DEF RemoveObject, TypeOK, ProgressInv
  <2>4. ExpiredInv'
    BY <1>9, <2>2 DEF RemoveObject, TypeOK, ExpiredInv
  <2>5. UploadedInv'
    BY <1>9, <2>2 DEF RemoveObject, TypeOK, UploadedInv, Shared, ProgressInv, ExpiredInv, IsNext
  <2>6. ListedInv'
    <3> SUFFICES ASSUME NEW l \in bucket'
                 PROVE  \E m \in Ids : at'[m] = l /\ Listed(m)' /\ ~Doomed(m)'
      BY DEF ListedInv
    <3>1. bucket' \subseteq bucket /\ UNCHANGED <<row, at>>
      BY <1>9 DEF RemoveObject
    <3>2. PICK w \in Ids : at[w] = l /\ Listed(w) /\ ~Doomed(w)
      BY <3>1 DEF ListedInv
    <3>3. PICK m \in expired[b] :
             /\ IsNext(b, m)
             /\ \/ bucket' = bucket \ {at[m]} /\ pc' = [pc EXCEPT ![b] = "delete"] /\ UNCHANGED expired
                \/ expired' = [expired EXCEPT ![b] = @ \ {m}] /\ UNCHANGED pc
      BY <1>9 DEF RemoveObject
    <3>4. CASE bucket' = bucket \ {at[m]} /\ pc' = [pc EXCEPT ![b] = "delete"] /\ UNCHANGED expired
      <4>1. w # m
        BY <3>2, <3>4
      <4>2. ~IsNext(b, w)
        BY <3>3, <4>1 DEF IsNext, TypeOK, Ids
      <4>3. ~Doomed(w)'
        BY <3>2, <3>4, <4>2 DEF Doomed, IsNext, TypeOK
      <4>4. QED
        BY <3>1, <3>2, <4>3 DEF Listed
    <3>5. CASE expired' = [expired EXCEPT ![b] = @ \ {m}] /\ UNCHANGED pc
      <4>1. pc[b] = "trim"
        BY <1>9 DEF RemoveObject
      <4>2. ~Doomed(w)'
        BY <3>2, <3>5, <4>1 DEF Doomed, IsNext, TypeOK
      <4>3. QED
        BY <3>1, <3>2, <4>2 DEF Listed
    <3>6. QED
      BY <3>3, <3>4, <3>5
  <2>7. QED
    BY <2>1, <2>3, <2>4, <2>5, <2>6
<1>10. ASSUME NEW b \in Ids, DeleteBackup(b) PROVE IInv'
  <2>1. TypeOK'
    BY <1>10 DEF DeleteBackup, TypeOK
  <2>2. \A m \in Ids : Retired(m) => Retired(m)'
    BY <1>10, <2>1, RetiredStays DEF DeleteBackup
  <2>3. ProgressInv'
    BY <1>10 DEF DeleteBackup, TypeOK, ProgressInv, ExpiredInv, IsNext
  <2>4. ExpiredInv'
    BY <1>10, <2>2 DEF DeleteBackup, TypeOK, ExpiredInv
  <2>5. UploadedInv'
    BY <1>10, <2>2 DEF DeleteBackup, TypeOK, UploadedInv, Shared, ProgressInv
  <2>6. ListedInv'
    BY <1>10 DEF DeleteBackup, TypeOK, ListedInv, Listed, Doomed, IsNext, ProgressInv, ExpiredInv
  <2>7. QED
    BY <2>1, <2>3, <2>4, <2>5, <2>6
<1>11. ASSUME NEW b \in Ids, RetentionDone(b) PROVE IInv'
  <2>1. TypeOK'
    BY <1>11 DEF RetentionDone, TypeOK
  <2>2. \A m \in Ids : Retired(m) => Retired(m)'
    BY <1>11, <2>1, RetiredStays DEF RetentionDone
  <2>3. ProgressInv'
    BY <1>11 DEF RetentionDone, TypeOK, ProgressInv
  <2>4. ExpiredInv'
    BY <1>11, <2>2 DEF RetentionDone, TypeOK, ExpiredInv
  <2>5. UploadedInv'
    BY <1>11, <2>2 DEF RetentionDone, TypeOK, UploadedInv, Shared, ProgressInv
  <2>6. ListedInv'
    BY <1>11 DEF RetentionDone, TypeOK, ListedInv, Listed, Doomed, IsNext
  <2>7. QED
    BY <2>1, <2>3, <2>4, <2>5, <2>6
<1>12. ASSUME NEW b \in Ids, Panic(b) PROVE IInv'
  <2>1. TypeOK'
    BY <1>12 DEF Panic, TypeOK
  <2>2. \A m \in Ids : Retired(m) => Retired(m)'
    BY <1>12, <2>1, RetiredStays DEF Panic
  <2>3. ProgressInv'
    BY <1>12 DEF Panic, TypeOK, ProgressInv
  <2>4. ExpiredInv'
    BY <1>12, <2>2 DEF Panic, TypeOK, ExpiredInv
  <2>5. UploadedInv'
    BY <1>12, <2>2 DEF Panic, TypeOK, UploadedInv, Shared, ProgressInv
  <2>6. ListedInv'
    BY <1>12 DEF Panic, TypeOK, ListedInv, Listed, Doomed, IsNext
  <2>7. QED
    BY <2>1, <2>3, <2>4, <2>5, <2>6
<1>13. CASE Restart
  <2>1. TypeOK'
    BY <1>13 DEF Restart, TypeOK
  <2>2. \A m \in Ids : Retired(m) => Retired(m)'
    BY <1>13, <2>1, RetiredStays DEF Restart
  <2>3. ProgressInv'
    BY <1>13 DEF Restart, TypeOK, ProgressInv
  <2>4. ExpiredInv'
    BY <1>13, <2>2 DEF Restart, TypeOK, ExpiredInv
  <2>5. UploadedInv'
    BY <1>13, <2>2 DEF Restart, TypeOK, UploadedInv, Shared, ProgressInv
  <2>6. ListedInv'
    BY <1>13 DEF Restart, TypeOK, ListedInv, Listed, Doomed, IsNext
  <2>7. QED
    BY <2>1, <2>3, <2>4, <2>5, <2>6
<1>14. CASE UNCHANGED vars
  <2> USE <1>14 DEF vars
  <2>1. TypeOK' /\ ProgressInv'
    BY DEF TypeOK, ProgressInv
  <2>2. \A m \in Ids : Retired(m) => Retired(m)'
    BY <2>1, RetiredStays
  <2>3. ExpiredInv'
    BY <2>2 DEF ExpiredInv
  <2>4. UploadedInv'
    BY <2>2 DEF UploadedInv, Shared
  <2>5. ListedInv'
    BY DEF ListedInv, Listed, Doomed, IsNext
  <2>6. QED
    BY <2>1, <2>3, <2>4, <2>5
<1>15. QED
  BY <1>1, <1>2, <1>3, <1>4, <1>5, <1>6, <1>7, <1>8, <1>9, <1>10, <1>11, <1>12, <1>13, <1>14 DEF Next, BackupStep, JobStep

\* Backups, all of it: the rows, the Jobs, the bucket and the lists that the
\* retention passes hold.
THEOREM InductiveInvariant == Spec => []IInv
BY InitInv, StepInv, PTL DEF Spec

\* Every variable of the model keeps its type, for every number of backups.
THEOREM TypeCorrect == Spec => []TypeOK
<1>1. IInv => TypeOK
  BY DEF IInv
<1>2. QED
  BY <1>1, InductiveInvariant, PTL

\* applyRetention, for every retention and any number of passes at once, each
\* with a list of its own age: a backup among the newest that succeeded is in
\* the bucket, if its location is its own.
THEOREM RetentionKeepsTheNewest == Spec => []RetainedIsThere
<1>1. IInv => RetainedIsThere
  <2> SUFFICES ASSUME IInv, NEW b \in Ids, Succeeded(b),
                      Cardinality(Newer(b)) <= Retention, Private(b)
               PROVE  at[b] \in bucket
    BY DEF RetainedIsThere
  <2>1. Cardinality(Newer(b)) \in Nat
    BY SubsetsOfIds DEF Newer, IInv, TypeOK
  <2>2. ~Retired(b)
    BY <2>1, RetentionAssumption DEF Retired
  <2>3. ~Shared(b)
    BY DEF Shared, Private
  <2>4. QED
    BY <2>2, <2>3 DEF IInv, ProgressInv, UploadedInv, Succeeded
<1>2. QED
  BY <1>1, InductiveInvariant, PTL

\* applyRetention deletes the object before the row: nothing is left in the
\* bucket that no row names, wherever a pass fails, panics or is cut off.
THEOREM NoObjectIsForgotten == Spec => []ObjectsAreListed
<1>1. IInv => ObjectsAreListed
  BY DEF IInv, ListedInv, Listed, ObjectsAreListed
<1>2. QED
  BY <1>1, InductiveInvariant, PTL

\* applyRetention and Backup, for every retention and any number of passes at
\* once: the two sides of the bookkeeping together.
THEOREM BookkeepingIsExact == Spec => []BucketMatchesRows
<1>1. RetainedIsThere /\ ObjectsAreListed => BucketMatchesRows
  BY DEF BucketMatchesRows
<1>2. QED
  BY <1>1, RetentionKeepsTheNewest, NoObjectIsForgotten, PTL

-----------------------------------------------------------------------------
(* The restore of a volume.                                                *)

(***************************************************************************)
(* The inductive invariant.  The two promises about the app are about all  *)
(* restores at once, and a restore keeps them only because it is alone:    *)
(* what it found (was) is right because no other one had scaled the app,   *)
(* and the pods stay away because no other one scales it back.             *)
(***************************************************************************)
Alone == \A r, s \in Restores : ~Idle(r) /\ ~Idle(s) => r = s

\* Without another restore there is one goroutine at most.
AloneInv == "overlap" \notin met => Alone

\* How far a goroutine is tells what its Job did.
JobInv ==
    \A r \in Restores :
        /\ rpc[r] \in {"off", "stop", "patch", "drain", "unpack"} => rjob[r] = "none"
        /\ rpc[r] \in {"start", "rollout"} => rjob[r] = "done"
        /\ op[r] = "succeeded" => rjob[r] = "done" /\ rpc[r] \in {"back", "done"}

\* Nothing but restores, one at a time, and each one waited for its Job.
Undisturbed == {"status", "panic", "overlap", "rollout"} \cap met = {}

\* The app is down from the moment its pods are waited for until its size is
\* put back; a Job that a restart left behind is still protected, because the
\* next restore then finds, and leaves, an app of size zero.
StoppedInv ==
    Undisturbed =>
        \A r \in Restores :
            /\ rpc[r] \in {"drain", "unpack", "wait", "start"} => replicas = 0
            /\ rpc[r] \in {"unpack", "wait"} => pods = 0
            /\ rjob[r] = "running" =>
                  /\ replicas = 0 /\ pods = 0
                  /\ rpc[r] \in {"wait", "done"}
                  /\ \A s \in Restores : ~Idle(s) /\ s # r =>
                        rpc[s] = "stop" \/ (rpc[s] # "patch" /\ was[s] = 0)

\* Nothing took the deferred call away or made it use a wrong size.
Returns == {"restart", "scale", "overlap"} \cap met = {}

\* Who scaled the app down knows its size, and nobody else did.
SizeInv ==
    Returns =>
        /\ \A r \in Restores :
              /\ rpc[r] \in {"stop", "patch"} => replicas = Size
              /\ rpc[r] \in Steps \ {"stop"} => was[r] = Size
        /\ (\A r \in Restores : Idle(r)) => replicas = Size

RestoreInv == RestoreTypeOK /\ AloneInv /\ JobInv /\ StoppedInv /\ SizeInv

-----------------------------------------------------------------------------
USE DEF cluster, Steps

\* A size is a natural number, and so is everything up to it.
LEMMA SizeFacts == Size \in Nat /\ Size # 0 /\ 0 \in 0..Size /\ Size \in 0..Size
BY SizeAssumption

\* No goroutine, no Job, no fault: RestoreInit has all of it.
LEMMA RestoreStart == RestoreInit => RestoreInv
BY SizeFacts DEF RestoreInit, RestoreInv, RestoreTypeOK, AloneInv, Alone, Idle, JobInv, StoppedInv, SizeInv

\* The invariant survives every step of the panel, of the Jobs and of the
\* cluster.
LEMMA RestoreStepKeeps == RestoreInv /\ [RestoreNext]_restoreVars => RestoreInv'
<1> SUFFICES ASSUME RestoreInv, [RestoreNext]_restoreVars PROVE RestoreInv'
  OBVIOUS
<1> USE SizeFacts DEF RestoreInv, RestoreTypeOK
<1>1. ASSUME NEW r \in Restores, RestoreVolume(r) PROVE RestoreInv'
  <2>1. RestoreTypeOK'
    BY <1>1 DEF RestoreVolume, Meet, RestoreGoto, Idle
  <2>2. AloneInv'
    BY <1>1 DEF RestoreVolume, Meet, RestoreGoto, Idle, AloneInv, Alone
  <2>3. JobInv'
    BY <1>1 DEF RestoreVolume, Meet, RestoreGoto, Idle, JobInv
  <2>4. StoppedInv'
    BY <1>1 DEF RestoreVolume, Meet, RestoreGoto, Idle, StoppedInv, Undisturbed, AloneInv, Alone, JobInv
  <2>5. SizeInv'
    BY <1>1 DEF RestoreVolume, Meet, RestoreGoto, Idle, SizeInv, Returns, AloneInv, Alone
  <2>6. QED
    BY <2>1, <2>2, <2>3, <2>4, <2>5
<1>2. ASSUME NEW r \in Restores, ReadSize(r) PROVE RestoreInv'
  <2>1. RestoreTypeOK'
    BY <1>2 DEF ReadSize, Meet, RestoreGoto, Idle, FailTo, SetOperationStatus
  <2>2. AloneInv'
    BY <1>2 DEF ReadSize, Meet, RestoreGoto, Idle, FailTo, SetOperationStatus, AloneInv, Alone
  <2>3. JobInv'
    BY <1>2 DEF ReadSize, Meet, RestoreGoto, Idle, FailTo, SetOperationStatus, JobInv
  <2>4. StoppedInv'
    BY <1>2 DEF ReadSize, Meet, RestoreGoto, Idle, FailTo, SetOperationStatus, StoppedInv, Undisturbed, AloneInv, Alone, JobInv
  <2>5. SizeInv'
    BY <1>2 DEF ReadSize, Meet, RestoreGoto, Idle, FailTo, SetOperationStatus, SizeInv, Returns, AloneInv, Alone
  <2>6. QED
    BY <2>1, <2>2, <2>3, <2>4, <2>5
<1>3. ASSUME NEW r \in Restores, ScaleToZero(r) PROVE RestoreInv'
  <2>1. RestoreTypeOK'
    BY <1>3 DEF ScaleToZero, Meet, RestoreGoto, Idle, FailTo, SetOperationStatus
  <2>2. AloneInv'
    BY <1>3 DEF ScaleToZero, Meet, RestoreGoto, Idle, FailTo, SetOperationStatus, AloneInv, Alone
  <2>3. JobInv'
    BY <1>3 DEF ScaleToZero, Meet, RestoreGoto, Idle, FailTo, SetOperationStatus, JobInv
  <2>4. StoppedInv'
    BY <1>3 DEF ScaleToZero, Meet, RestoreGoto, Idle, FailTo, SetOperationStatus, StoppedInv, Undisturbed, AloneInv, Alone, JobInv
  <2>5. SizeInv'
    BY <1>3 DEF ScaleToZero, Meet, RestoreGoto, Idle, FailTo, SetOperationStatus, SizeInv, Returns, AloneInv, Alone
  <2>6. QED
    BY <2>1, <2>2, <2>3, <2>4, <2>5
<1>4. ASSUME NEW r \in Restores, WaitForNoPods(r) PROVE RestoreInv'
  <2>1. RestoreTypeOK'
    BY <1>4 DEF WaitForNoPods, Meet, RestoreGoto, Idle, FailTo, SetOperationStatus
  <2>2. AloneInv'
    BY <1>4 DEF WaitForNoPods, Meet, RestoreGoto, Idle, FailTo, SetOperationStatus, AloneInv, Alone
  <2>3. JobInv'
    BY <1>4 DEF WaitForNoPods, Meet, RestoreGoto, Idle, FailTo, SetOperationStatus, JobInv
  <2>4. StoppedInv'
    BY <1>4 DEF WaitForNoPods, Meet, RestoreGoto, Idle, FailTo, SetOperationStatus, StoppedInv, Undisturbed, AloneInv, Alone, JobInv
  <2>5. SizeInv'
    BY <1>4 DEF WaitForNoPods, Meet, RestoreGoto, Idle, FailTo, SetOperationStatus, SizeInv, Returns, AloneInv, Alone
  <2>6. QED
    BY <2>1, <2>2, <2>3, <2>4, <2>5
<1>5. ASSUME NEW r \in Restores, StartUnpacking(r) PROVE RestoreInv'
  <2>1. RestoreTypeOK'
    BY <1>5 DEF StartUnpacking, Meet, RestoreGoto, Idle, FailTo, SetOperationStatus
  <2>2. AloneInv'
    BY <1>5 DEF StartUnpacking, Meet, RestoreGoto, Idle, FailTo, SetOperationStatus, AloneInv, Alone
  <2>3. JobInv'
    BY <1>5 DEF StartUnpacking, Meet, RestoreGoto, Idle, FailTo, SetOperationStatus, JobInv
  <2>4. StoppedInv'
    BY <1>5 DEF StartUnpacking, Meet, RestoreGoto, Idle, FailTo, SetOperationStatus, StoppedInv, Undisturbed, AloneInv, Alone, JobInv
  <2>5. SizeInv'
    BY <1>5 DEF StartUnpacking, Meet, RestoreGoto, Idle, FailTo, SetOperationStatus, SizeInv, Returns, AloneInv, Alone
  <2>6. QED
    BY <2>1, <2>2, <2>3, <2>4, <2>5
<1>6. ASSUME NEW r \in Restores, WaitForRestoreJob(r) PROVE RestoreInv'
  <2>1. RestoreTypeOK'
    BY <1>6 DEF WaitForRestoreJob, Meet, RestoreGoto, Idle, FailTo, SetOperationStatus
  <2>2. AloneInv'
    BY <1>6 DEF WaitForRestoreJob, Meet, RestoreGoto, Idle, FailTo, SetOperationStatus, AloneInv, Alone
  <2>3. JobInv'
    BY <1>6 DEF WaitForRestoreJob, Meet, RestoreGoto, Idle, FailTo, SetOperationStatus, JobInv
  <2>4. StoppedInv'
    BY <1>6 DEF WaitForRestoreJob, Meet, RestoreGoto, Idle, FailTo, SetOperationStatus, StoppedInv, Undisturbed, AloneInv, Alone, JobInv
  <2>5. SizeInv'
    BY <1>6 DEF WaitForRestoreJob, Meet, RestoreGoto, Idle, FailTo, SetOperationStatus, SizeInv, Returns, AloneInv, Alone
  <2>6. QED
    BY <2>1, <2>2, <2>3, <2>4, <2>5
<1>7. ASSUME NEW r \in Restores, StartAgain(r) PROVE RestoreInv'
  <2>1. RestoreTypeOK'
    BY <1>7 DEF StartAgain, Meet, RestoreGoto, Idle, FailTo, SetOperationStatus
  <2>2. AloneInv'
    BY <1>7 DEF StartAgain, Meet, RestoreGoto, Idle, FailTo, SetOperationStatus, AloneInv, Alone
  <2>3. JobInv'
    BY <1>7 DEF StartAgain, Meet, RestoreGoto, Idle, FailTo, SetOperationStatus, JobInv
  <2>4. StoppedInv'
    BY <1>7 DEF StartAgain, Meet, RestoreGoto, Idle, FailTo, SetOperationStatus, StoppedInv, Undisturbed, AloneInv, Alone, JobInv
  <2>5. SizeInv'
    BY <1>7 DEF StartAgain, Meet, RestoreGoto, Idle, FailTo, SetOperationStatus, SizeInv, Returns, AloneInv, Alone
  <2>6. QED
    BY <2>1, <2>2, <2>3, <2>4, <2>5
<1>8. ASSUME NEW r \in Restores, WaitForRollout(r) PROVE RestoreInv'
  <2>1. RestoreTypeOK'
    BY <1>8 DEF WaitForRollout, Meet, RestoreGoto, Idle, FailTo, SetOperationStatus
  <2>2. AloneInv'
    BY <1>8 DEF WaitForRollout, Meet, RestoreGoto, Idle, FailTo, SetOperationStatus, AloneInv, Alone
  <2>3. JobInv'
    BY <1>8 DEF WaitForRollout, Meet, RestoreGoto, Idle, FailTo, SetOperationStatus, JobInv
  <2>4. StoppedInv'
    BY <1>8 DEF WaitForRollout, Meet, RestoreGoto, Idle, FailTo, SetOperationStatus, StoppedInv, Undisturbed, AloneInv, Alone, JobInv
  <2>5. SizeInv'
    BY <1>8 DEF WaitForRollout, Meet, RestoreGoto, Idle, FailTo, SetOperationStatus, SizeInv, Returns, AloneInv, Alone
  <2>6. QED
    BY <2>1, <2>2, <2>3, <2>4, <2>5
<1>9. ASSUME NEW r \in Restores, ScaleBack(r) PROVE RestoreInv'
  <2>1. RestoreTypeOK'
    BY <1>9 DEF ScaleBack, Meet, RestoreGoto, Idle, SetOperationStatus
  <2>2. AloneInv'
    BY <1>9 DEF ScaleBack, Meet, RestoreGoto, Idle, SetOperationStatus, AloneInv, Alone
  <2>3. JobInv'
    BY <1>9 DEF ScaleBack, Meet, RestoreGoto, Idle, SetOperationStatus, JobInv
  <2>4. StoppedInv'
    BY <1>9 DEF ScaleBack, Meet, RestoreGoto, Idle, SetOperationStatus, StoppedInv, Undisturbed, AloneInv, Alone, JobInv
  <2>5. SizeInv'
    BY <1>9 DEF ScaleBack, Meet, RestoreGoto, Idle, SetOperationStatus, SizeInv, Returns, AloneInv, Alone
  <2>6. QED
    BY <2>1, <2>2, <2>3, <2>4, <2>5
<1>10. ASSUME NEW r \in Restores, JobUnpacks(r) PROVE RestoreInv'
  <2>1. RestoreTypeOK'
    BY <1>10 DEF JobUnpacks, Meet, Idle
  <2>2. AloneInv'
    BY <1>10 DEF JobUnpacks, Meet, Idle, AloneInv, Alone
  <2>3. JobInv'
    BY <1>10 DEF JobUnpacks, Meet, Idle, JobInv
  <2>4. StoppedInv'
    BY <1>10 DEF JobUnpacks, Meet, Idle, StoppedInv, Undisturbed, AloneInv, Alone, JobInv
  <2>5. SizeInv'
    BY <1>10 DEF JobUnpacks, Meet, Idle, SizeInv, Returns, AloneInv, Alone
  <2>6. QED
    BY <2>1, <2>2, <2>3, <2>4, <2>5
<1>11. ASSUME NEW r \in Restores, RestorePanic(r) PROVE RestoreInv'
  <2>1. RestoreTypeOK'
    BY <1>11 DEF RestorePanic, Meet, RestoreGoto, Idle, FailTo, SetOperationStatus
  <2>2. AloneInv'
    BY <1>11 DEF RestorePanic, Meet, RestoreGoto, Idle, FailTo, SetOperationStatus, AloneInv, Alone
  <2>3. JobInv'
    BY <1>11 DEF RestorePanic, Meet, RestoreGoto, Idle, FailTo, SetOperationStatus, JobInv
  <2>4. StoppedInv'
    BY <1>11 DEF RestorePanic, Meet, RestoreGoto, Idle, FailTo, SetOperationStatus, StoppedInv, Undisturbed, AloneInv, Alone, JobInv
  <2>5. SizeInv'
    BY <1>11 DEF RestorePanic, Meet, RestoreGoto, Idle, FailTo, SetOperationStatus, SizeInv, Returns, AloneInv, Alone
  <2>6. QED
    BY <2>1, <2>2, <2>3, <2>4, <2>5
<1>12. CASE PodsFollow
  <2>1. RestoreTypeOK'
    BY <1>12 DEF PodsFollow, Idle
  <2>2. AloneInv'
    BY <1>12 DEF PodsFollow, Idle, AloneInv, Alone
  <2>3. JobInv'
    BY <1>12 DEF PodsFollow, Idle, JobInv
  <2>4. StoppedInv'
    BY <1>12 DEF PodsFollow, Idle, StoppedInv, Undisturbed, AloneInv, Alone, JobInv
  <2>5. SizeInv'
    BY <1>12 DEF PodsFollow, Idle, SizeInv, Returns, AloneInv, Alone
  <2>6. QED
    BY <2>1, <2>2, <2>3, <2>4, <2>5
<1>13. CASE Rollout
  <2>1. RestoreTypeOK'
    BY <1>13 DEF Rollout, Meet, Idle
  <2>2. AloneInv'
    BY <1>13 DEF Rollout, Meet, Idle, AloneInv, Alone
  <2>3. JobInv'
    BY <1>13 DEF Rollout, Meet, Idle, JobInv
  <2>4. StoppedInv'
    BY <1>13 DEF Rollout, Meet, Idle, StoppedInv, Undisturbed, AloneInv, Alone, JobInv
  <2>5. SizeInv'
    BY <1>13 DEF Rollout, Meet, Idle, SizeInv, Returns, AloneInv, Alone
  <2>6. QED
    BY <2>1, <2>2, <2>3, <2>4, <2>5
<1>14. CASE RestoreInterrupted
  <2>1. RestoreTypeOK'
    BY <1>14 DEF RestoreInterrupted, Meet, Idle, ResumeInterrupted
  <2>2. AloneInv'
    BY <1>14 DEF RestoreInterrupted, Meet, Idle, ResumeInterrupted, AloneInv, Alone
  <2>3. JobInv'
    BY <1>14 DEF RestoreInterrupted, Meet, Idle, ResumeInterrupted, JobInv
  <2>4. StoppedInv'
    BY <1>14 DEF RestoreInterrupted, Meet, Idle, ResumeInterrupted, StoppedInv, Undisturbed, AloneInv, Alone, JobInv
  <2>5. SizeInv'
    BY <1>14 DEF RestoreInterrupted, Meet, Idle, ResumeInterrupted, SizeInv, Returns, AloneInv, Alone
  <2>6. QED
    BY <2>1, <2>2, <2>3, <2>4, <2>5
<1>15. CASE PodsEnd
  <2>1. RestoreTypeOK'
    BY <1>15 DEF PodsEnd, Idle
  <2>2. AloneInv'
    BY <1>15 DEF PodsEnd, Idle, AloneInv, Alone
  <2>3. JobInv'
    BY <1>15 DEF PodsEnd, Idle, JobInv
  <2>4. StoppedInv'
    BY <1>15 DEF PodsEnd, Idle, StoppedInv, Undisturbed, AloneInv, Alone, JobInv
  <2>5. SizeInv'
    BY <1>15 DEF PodsEnd, Idle, SizeInv, Returns, AloneInv, Alone
  <2>6. QED
    BY <2>1, <2>2, <2>3, <2>4, <2>5
<1>16. CASE UNCHANGED restoreVars
  BY <1>16 DEF restoreVars, AloneInv, Alone, Idle, JobInv, StoppedInv, Undisturbed, SizeInv, Returns
<1>17. QED
  BY <1>1, <1>2, <1>3, <1>4, <1>5, <1>6, <1>7, <1>8, <1>9, <1>10, <1>11, <1>12, <1>13, <1>14, <1>15, <1>16 DEF RestoreNext, RestoreStep

\* VolumeRestore, all of it: where the goroutines are, what their Jobs did,
\* and what the app's size can be meanwhile.
THEOREM RestoreInductiveInvariant == RestoreSpec => []RestoreInv
BY RestoreStart, RestoreStepKeeps, PTL DEF RestoreSpec

\* Every variable of the model keeps its type, for every number of restores.
THEOREM RestoreTypeCorrect == RestoreSpec => []RestoreTypeOK
<1>1. RestoreInv => RestoreTypeOK
  BY DEF RestoreInv
<1>2. QED
  BY <1>1, RestoreInductiveInvariant, PTL

\* runVolumeRestore scales to zero and waits for status.replicas before it
\* unpacks: no pod of the app is kept or started while an archive is unpacked,
\* unless the wait for a Job was given up, a goroutine panicked, or a rollout
\* or another restore came in between.  Pods that are shutting down are not
\* counted, and may still have the volume mounted.
THEOREM AppIsScaledDownWhileUnpacking == RestoreSpec => []StoppedWhileUnpacking
<1>1. RestoreInv => StoppedWhileUnpacking
  BY DEF RestoreInv, RestoreTypeOK, StoppedInv, Undisturbed, StoppedWhileUnpacking
<1>2. QED
  BY <1>1, RestoreInductiveInvariant, PTL

\* The deferred ScaleDeployment: after the last restore the app has the size
\* it had, whatever Jobs, waits, panics and rollouts did; only a restart, a
\* failed call to scale it and overlapping restores can take it away.
THEOREM AppIsPutBack == RestoreSpec => []AppGoesBack
<1>1. RestoreInv => AppGoesBack
  BY DEF RestoreInv, SizeInv, Returns, AppGoesBack
<1>2. QED
  BY <1>1, RestoreInductiveInvariant, PTL

\* waitForJob: an operation that says succeeded has unpacked its archive.
THEOREM SuccessIsReal == RestoreSpec => []SucceededUnpacked
<1>1. RestoreInv => SucceededUnpacked
  BY DEF RestoreInv, JobInv, SucceededUnpacked
<1>2. QED
  BY <1>1, RestoreInductiveInvariant, PTL

\* What a restore must not break, all of it at once: no pod kept or started while the disk is unpacked,
\* the app back at its size, and no success without the archive, up to the interferences each names.
THEOREM RestoringIsSafe == RestoreSpec => []RestoreIsSafe
<1>1. RestoreInv => RestoreIsSafe
  <2>1. RestoreInv => StoppedWhileUnpacking
    BY DEF RestoreInv, RestoreTypeOK, StoppedInv, Undisturbed, StoppedWhileUnpacking
  <2>2. RestoreInv => AppGoesBack
    BY DEF RestoreInv, SizeInv, Returns, AppGoesBack
  <2>3. RestoreInv => SucceededUnpacked
    BY DEF RestoreInv, JobInv, SucceededUnpacked
  <2>4. QED
    BY <2>1, <2>2, <2>3 DEF RestoreIsSafe
<1>2. QED
  BY <1>1, RestoreInductiveInvariant, PTL
-----------------------------------------------------------------------------
(***************************************************************************)
(* What a laptop sends.  A deployment names the code it is of by its hash; *)
(* what lies under a hash was inspected before it was put there, and stays *)
(* that code whoever sends it again.                                       *)
(***************************************************************************)
UpTypes == {NoCommand} \cup Command
LaptopType == [code : Versions, link : OneApp, up : UpTypes]
Stored == [sha : Versions, at : Nat]
Receipt == [sha : Versions, by : Laptops, kept : BOOLEAN]
Directory == [stored : SUBSET Stored, temps : SUBSET (Laptops \cup {"stale"})]
Build == [app : UApps, commit : Versions, at : Nat, by : SUBSET Versions, got : SUBSET Versions,
          status : {"queued", "superseded", "failed", "missing", "delivered"}]

\* A command that waits for the panel to look at its archive has sent it.
ReceivedIsSent ==
    \A l \in Laptops : laptop[l].up.at = "inspect" =>
        \A a \in laptop[l].up.target : \E i \in DOMAIN sent[a] : sent[a][i].by = l
SoundDir(d) == \A u \in d.stored : Inspect(ArchiveOf[u.sha]) = "ok"
StoredIsSound == \A a \in UApps : \A d \in dir[a] : SoundDir(d)
BuildOK(b) ==
    /\ Inspect(ArchiveOf[b.commit]) = "ok"
    /\ b.got \subseteq {b.commit}
    /\ b.by # {} => b.by = {b.commit}
BuildsAreSound == \A i \in DOMAIN builds : BuildOK(builds[i])
UploadInv == UploadTypeOK /\ ReceivedIsSent /\ StoredIsSound /\ BuildsAreSound

LEMMA WhatIsThere ==
    ASSUME UploadTypeOK, StoredIsSound, NEW a \in UApps PROVE The(dir[a]) \in Directory /\ SoundDir(The(dir[a]))
<1>1. dir[a] \subseteq Directory /\ \A d \in dir[a] : SoundDir(d)
  BY DEF UploadTypeOK, Directory, Stored, StoredIsSound
<1>2. CASE dir[a] = {}
  <2>1. The(dir[a]) = NoDir
    BY <1>2 DEF The
  <2>2. NoDir \in Directory /\ NoDir.stored = {}
    BY DEF NoDir, Directory
  <2>3. QED BY <2>1, <2>2 DEF SoundDir
<1>3. CASE dir[a] # {}
  <2>1. The(dir[a]) \in dir[a]
    BY <1>3 DEF The
  <2>2. QED BY <1>1, <2>1
<1>4. QED BY <1>2, <1>3

\* What concerns one laptop.
LEMMA OneLaptopMoves ==
    ASSUME UploadInv, NEW l \in Laptops, NEW r \in LaptopType,
           laptop' = [laptop EXCEPT ![l] = r],
           r.up.at = "inspect" => \A a \in r.up.target : \E i \in DOMAIN sent'[a] : sent'[a][i].by = l,
           \A a \in UApps : \A i \in DOMAIN sent[a] : i \in DOMAIN sent'[a] /\ sent'[a][i].by = sent[a][i].by
    PROVE  laptop' \in [Laptops -> LaptopType] /\ ReceivedIsSent'
<1>1. laptop \in [Laptops -> LaptopType]
  BY DEF UploadInv, UploadTypeOK, LaptopType, UpTypes
<1>2. laptop' \in [Laptops -> LaptopType] /\ laptop'[l] = r /\ \A m \in Laptops : m # l => laptop'[m] = laptop[m]
  BY <1>1
<1>3. ASSUME NEW m \in Laptops, m # l, laptop[m].up.at = "inspect", NEW a \in laptop[m].up.target
      PROVE  \E i \in DOMAIN sent'[a] : sent'[a][i].by = m
  <2>1. laptop[m].up \in UpTypes
    BY <1>1 DEF LaptopType
  <2>2. a \in UApps
    BY <1>3, <2>1 DEF UpTypes, NoCommand, Command, OneApp
  <2>3. QED BY <1>3, <2>2 DEF UploadInv, ReceivedIsSent
<1>4. QED BY <1>2, <1>3 DEF ReceivedIsSent

\* One laptop's command moves on, and nothing it has sent is touched.
LEMMA CommandMoves ==
    ASSUME UploadInv, NEW l \in Laptops, NEW q \in UpTypes, q.at # "inspect",
           laptop' = [laptop EXCEPT ![l].up = q], UNCHANGED sent
    PROVE  laptop' \in [Laptops -> LaptopType] /\ ReceivedIsSent'
<1> DEFINE r == [laptop[l] EXCEPT !.up = q]
<1>1. laptop[l] \in LaptopType /\ laptop \in [Laptops -> LaptopType]
  BY DEF UploadInv, UploadTypeOK, LaptopType, UpTypes
<1>2. r \in LaptopType /\ r.up = q
  BY <1>1 DEF LaptopType
<1>3. laptop' = [laptop EXCEPT ![l] = r]
  BY <1>1
<1> HIDE DEF r
<1>4. QED BY <1>2, <1>3, OneLaptopMoves

LEMMA EndsMoves ==
    ASSUME UploadInv, NEW l \in Laptops, Ends(l), UNCHANGED sent
    PROVE  laptop' \in [Laptops -> LaptopType] /\ ReceivedIsSent'
<1>1. NoCommand \in UpTypes /\ NoCommand.at # "inspect"
  BY DEF UpTypes, NoCommand
<1>2. QED BY <1>1, CommandMoves DEF Ends

\* Where the command goes next.
LEMMA StageMoves ==
    ASSUME UploadInv, NEW l \in Laptops, laptop[l].up.at # "off",
           NEW x \in {"place", "create", "link", "find", "send", "receive", "prune", "deploy"},
           laptop' = [laptop EXCEPT ![l].up.at = x], UNCHANGED sent
    PROVE  laptop' \in [Laptops -> LaptopType] /\ ReceivedIsSent'
<1> DEFINE q == [laptop[l].up EXCEPT !.at = x]
<1>1. laptop[l].up \in Command /\ laptop \in [Laptops -> LaptopType]
  BY DEF UploadInv, UploadTypeOK, LaptopType, UpTypes, NoCommand
<1>2. q \in UpTypes /\ q.at # "inspect"
  BY <1>1 DEF UpTypes, Command
<1>3. laptop' = [laptop EXCEPT ![l].up = q]
  BY <1>1
<1> HIDE DEF q
<1>4. QED BY <1>2, <1>3, CommandMoves

\* What is left when only laptops, apps, projects and variables change.
LEMMA OnlyTheRest ==
    ASSUME UploadInv, laptop' \in [Laptops -> LaptopType], ReceivedIsSent', UNCHANGED <<dir, builds, sent>>,
           uapp' \in [UApps -> {"free", "upload", "git", "gone"}],
           given' \in [UApps -> SUBSET ({"KEY", "DATABASE_URL"} \X {"file", "database"})],
           projects' \in BOOLEAN, umix' \in [kinds : SUBSET UploadKinds, moves : Nat]
    PROVE  UploadInv'
<1>1. UploadTypeOK'
  BY DEF UploadInv, UploadTypeOK, LaptopType, UpTypes
<1>2. StoredIsSound' /\ BuildsAreSound'
  BY DEF UploadInv, StoredIsSound, BuildsAreSound
<1>3. QED BY <1>1, <1>2 DEF UploadInv

LEMMA UMayIs ==
    ASSUME UploadTypeOK, NEW k, UMay(k) PROVE umix' \in [kinds : SUBSET UploadKinds, moves : Nat]
<1>1. umix \in [kinds : SUBSET UploadKinds, moves : Nat] /\ umix.moves > 0 /\ umix' = [umix EXCEPT !.moves = umix.moves - 1]
  BY DEF UMay, UploadTypeOK
<1>2. umix.moves - 1 \in Nat
  BY <1>1
<1>3. QED BY <1>1, <1>2

\* A directory is replaced by one with nothing in it that was not inspected.
LEMMA OneDirMoves ==
    ASSUME UploadInv, laptop' \in [Laptops -> LaptopType], ReceivedIsSent',
           sent' \in [UApps -> Seq(Receipt)],
           NEW D, dir' = D, D \in [UApps -> SUBSET Directory],
           \A a \in UApps : \A d, e \in D[a] : d = e,
           \A a \in UApps : \A d \in D[a] : SoundDir(d),
           uapp' \in [UApps -> {"free", "upload", "git", "gone"}], UNCHANGED <<builds, given, projects>>,
           umix' \in [kinds : SUBSET UploadKinds, moves : Nat]
    PROVE  UploadInv'
<1>1. UploadTypeOK'
  BY DEF UploadInv, UploadTypeOK, LaptopType, UpTypes, Directory, Stored, Receipt
<1>2. StoredIsSound' /\ BuildsAreSound'
  BY DEF UploadInv, StoredIsSound, BuildsAreSound
<1>3. QED BY <1>1, <1>2 DEF UploadInv

\* The same, for the directory of one app.
LEMMA OneAppsDirMoves ==
    ASSUME UploadInv, laptop' \in [Laptops -> LaptopType], ReceivedIsSent',
           sent' \in [UApps -> Seq(Receipt)],
           NEW a, NEW d, a \in UApps => d \in Directory /\ SoundDir(d),
           dir' = [dir EXCEPT ![a] = {d}], UNCHANGED <<uapp, builds, given, projects, umix>>
    PROVE  UploadInv'
<1>1. dir \in [UApps -> SUBSET Directory]
  BY DEF UploadInv, UploadTypeOK, Directory, Stored
<1>2. [dir EXCEPT ![a] = {d}] \in [UApps -> SUBSET Directory]
  BY <1>1
<1>3. \A b \in UApps : dir'[b] = IF b = a THEN {d} ELSE dir[b]
  BY <1>1
<1>4. \A b \in UApps : \A x, y \in dir'[b] : x = y
  BY <1>3 DEF UploadInv, UploadTypeOK
<1>5. \A b \in UApps : \A x \in dir'[b] : SoundDir(x)
  BY <1>3 DEF UploadInv, StoredIsSound
<1>6. uapp' \in [UApps -> {"free", "upload", "git", "gone"}] /\ umix' \in [kinds : SUBSET UploadKinds, moves : Nat]
  BY DEF UploadInv, UploadTypeOK
<1>7. QED BY <1>2, <1>4, <1>5, <1>6, OneDirMoves

\* Temporary files come and go.
LEMMA TempsMove ==
    ASSUME NEW d \in Directory, SoundDir(d), NEW T \in SUBSET (Laptops \cup {"stale"}),
           NEW e, e = [d EXCEPT !.temps = T]
    PROVE  e \in Directory /\ SoundDir(e)
<1>1. e \in Directory /\ e.stored = d.stored
  <2>1. d = [stored |-> d.stored, temps |-> d.temps] /\ d.stored \in SUBSET Stored
    BY DEF Directory
  <2>2. e = [stored |-> d.stored, temps |-> T]
    BY <2>1
  <2>3. QED BY <2>1, <2>2 DEF Directory
<1>2. QED BY <1>1 DEF SoundDir

LEMMA ChangeOne ==
    ASSUME NEW S, NEW s \in Seq(S), NEW n \in DOMAIN s, NEW e \in S, NEW t, t = [s EXCEPT ![n] = e]
    PROVE  t \in Seq(S) /\ DOMAIN t = DOMAIN s /\ t[n] = e /\ \A i \in DOMAIN s : i # n => t[i] = s[i]
<1>1. s \in [1 .. Len(s) -> S] /\ Len(s) \in Nat /\ DOMAIN s = 1 .. Len(s)
  OBVIOUS
<1>2. t \in [1 .. Len(s) -> S]
  BY <1>1
<1>3. t \in Seq(S)
  BY <1>1, <1>2
<1>4. QED BY <1>1, <1>2, <1>3

\* What a command does before it sends.
LEMMA CommandInv ==
    ASSUME UploadInv, NEW l \in Laptops,
           \/ \E v \in Versions : Edit(l, v)
           \/ \E m \in Laptops : Clone(l, m)
           \/ \E new, dotenv \in BOOLEAN : UpBegins(l, new, dotenv)
           \/ ResolveOrCreateEnvironment(l) \/ SaveProjectFile(l) \/ FindApp(l) \/ UploadSource(l)
           \/ \E a \in UApps : CreateUploadApp(l, a) \/ CmdInit(l, a)
    PROVE  UploadInv'
<1>1. /\ laptop \in [Laptops -> LaptopType] /\ uapp \in [UApps -> {"free", "upload", "git", "gone"}]
      /\ given \in [UApps -> SUBSET ({"KEY", "DATABASE_URL"} \X {"file", "database"})]
      /\ projects \in BOOLEAN /\ umix \in [kinds : SUBSET UploadKinds, moves : Nat]
      /\ UploadTypeOK /\ laptop[l] \in LaptopType /\ (laptop[l].up.at # "off" => laptop[l].up \in Command)
  <2>1. laptop \in [Laptops -> LaptopType] /\ UploadTypeOK
    BY DEF UploadInv, UploadTypeOK, LaptopType, UpTypes
  <2>2. laptop[l] \in LaptopType /\ (laptop[l].up.at # "off" => laptop[l].up \in Command)
    BY <2>1 DEF LaptopType, UpTypes, NoCommand
  <2>3. QED BY <2>1, <2>2 DEF UploadTypeOK
<1>2. \A m \in Laptops : \A r \in LaptopType :
         laptop' = [laptop EXCEPT ![m] = r] /\ r.up.at # "inspect" /\ UNCHANGED sent
            => laptop' \in [Laptops -> LaptopType] /\ ReceivedIsSent'
  BY OneLaptopMoves
<1>3. ASSUME NEW v \in Versions, Edit(l, v) PROVE UploadInv'
  <2> DEFINE r == [laptop[l] EXCEPT !.code = v]
  <2>1. r \in LaptopType /\ r.up = laptop[l].up
    BY <1>1 DEF LaptopType
  <2>2. laptop' = [laptop EXCEPT ![l] = r] /\ r.up.at # "inspect"
    BY <1>1, <1>3, <2>1 DEF Edit
  <2> HIDE DEF r
  <2>3. QED BY <1>1, <1>2, <1>3, <2>1, <2>2, UMayIs, OnlyTheRest DEF Edit
<1>4. ASSUME NEW m \in Laptops, Clone(l, m) PROVE UploadInv'
  <2> DEFINE r == [laptop[m] EXCEPT !.link = laptop[l].link]
  <2>1. r \in LaptopType /\ r.up = laptop[m].up
    BY <1>1 DEF LaptopType
  <2>2. laptop' = [laptop EXCEPT ![m] = r] /\ r.up.at # "inspect"
    BY <1>1, <1>4, <2>1 DEF Clone
  <2> HIDE DEF r
  <2>3. QED BY <1>1, <1>2, <1>4, <2>1, <2>2, UMayIs, OnlyTheRest DEF Clone
<1>5. ASSUME NEW new \in BOOLEAN, NEW dotenv \in BOOLEAN, UpBegins(l, new, dotenv) PROVE UploadInv'
  <2> DEFINE q == [packed |-> laptop[l].code, dotenv |-> dotenv,
                   target |-> IF new THEN {} ELSE laptop[l].link,
                   at |-> IF new \/ laptop[l].link = {} THEN "place" ELSE "find"]
  <2>1. q \in UpTypes /\ q.at # "inspect"
    BY <1>1 DEF LaptopType, UpTypes, Command, OneApp
  <2>2. laptop' = [laptop EXCEPT ![l].up = q]
    BY <1>5 DEF UpBegins
  <2> HIDE DEF q
  <2>3. laptop' \in [Laptops -> LaptopType] /\ ReceivedIsSent'
    BY <1>5, <2>1, <2>2, CommandMoves DEF UpBegins
  <2>4. QED BY <1>1, <1>5, <2>3, UMayIs, OnlyTheRest DEF UpBegins
<1>6. CASE ResolveOrCreateEnvironment(l)
  BY <1>1, <1>6, StageMoves, OnlyTheRest DEF ResolveOrCreateEnvironment
<1>7. CASE SaveProjectFile(l)
  <2>1. CASE UMay("cut") /\ Ends(l)
    BY <1>1, <1>7, <2>1, EndsMoves, UMayIs, OnlyTheRest DEF SaveProjectFile
  <2>2. CASE laptop' = [laptop EXCEPT ![l].link = laptop[l].up.target, ![l].up.at = "send"] /\ UNCHANGED umix
    <3> DEFINE q == [laptop[l].up EXCEPT !.at = "send"]
               r == [laptop[l] EXCEPT !.link = laptop[l].up.target, !.up = q]
    <3>1. laptop[l].up \in Command
      BY <1>1, <1>7 DEF SaveProjectFile
    <3>2. q \in UpTypes /\ q.at = "send" /\ laptop[l].up.target \in OneApp
      BY <3>1 DEF UpTypes, Command
    <3>3. laptop' = [laptop EXCEPT ![l] = r]
      BY <1>1, <2>2
    <3> HIDE DEF q
    <3>4. r \in LaptopType /\ r.up = q
      BY <1>1, <3>2 DEF LaptopType
    <3> HIDE DEF r
    <3>5. QED BY <1>1, <1>2, <1>7, <2>2, <3>2, <3>3, <3>4, OnlyTheRest DEF SaveProjectFile
  <2>3. QED BY <1>7, <2>1, <2>2 DEF SaveProjectFile
<1>8. CASE FindApp(l)
  <2>1. PICK a \in laptop[l].up.target :
            IF uapp[a] = "gone" THEN Ends(l) /\ UNCHANGED given
            ELSE /\ laptop' = [laptop EXCEPT ![l].up.at = "send"]
                 /\ given' = IF ~laptop[l].up.dotenv THEN given
                             ELSE [given EXCEPT ![a] = {<<"KEY", "file">>, <<"DATABASE_URL", "file">>}]
    BY <1>8 DEF FindApp
  <2>2. given' \in [UApps -> SUBSET ({"KEY", "DATABASE_URL"} \X {"file", "database"})]
    BY <1>1, <2>1
  <2>3. laptop' \in [Laptops -> LaptopType] /\ ReceivedIsSent'
    BY <1>8, <2>1, StageMoves, EndsMoves DEF FindApp
  <2>4. QED BY <1>1, <1>8, <2>2, <2>3, OnlyTheRest DEF FindApp
<1>9. CASE UploadSource(l)
  <2>1. laptop' \in [Laptops -> LaptopType] /\ ReceivedIsSent'
    BY <1>9, StageMoves, EndsMoves DEF UploadSource
  <2>2. QED BY <1>1, <1>9, <2>1, OnlyTheRest DEF UploadSource
<1>10. ASSUME NEW a \in UApps, CreateUploadApp(l, a) PROVE UploadInv'
  <2>1. /\ given' = [given EXCEPT ![a] = WantedVariables(laptop[l].up.dotenv)] /\ uapp' = [uapp EXCEPT ![a] = "upload"]
        /\ laptop[l].up.at = "create"
    BY <1>10 DEF CreateUploadApp
  <2>2. WantedVariables(laptop[l].up.dotenv) \in SUBSET ({"KEY", "DATABASE_URL"} \X {"file", "database"})
    BY DEF WantedVariables
  <2>3. /\ given' \in [UApps -> SUBSET ({"KEY", "DATABASE_URL"} \X {"file", "database"})]
        /\ uapp' \in [UApps -> {"free", "upload", "git", "gone"}]
    BY <1>1, <2>1, <2>2
  <2>4. CASE UMay("cut") /\ Ends(l)
    BY <1>1, <1>10, <2>3, <2>4, EndsMoves, UMayIs, OnlyTheRest DEF CreateUploadApp
  <2>5. CASE laptop' = [laptop EXCEPT ![l].up.at = "link", ![l].up.target = {a}] /\ UNCHANGED umix
    <3> DEFINE q == [laptop[l].up EXCEPT !.at = "link", !.target = {a}]
    <3>1. laptop[l].up \in Command
      BY <1>1, <2>1
    <3>2. q \in UpTypes /\ q.at # "inspect"
      BY <3>1 DEF UpTypes, Command, OneApp
    <3>3. laptop' = [laptop EXCEPT ![l].up = q]
      BY <1>1, <2>5
    <3> HIDE DEF q
    <3>4. laptop' \in [Laptops -> LaptopType] /\ ReceivedIsSent'
      BY <1>10, <3>2, <3>3, CommandMoves DEF CreateUploadApp
    <3>5. QED BY <1>1, <1>10, <2>3, <2>5, <3>4, OnlyTheRest DEF CreateUploadApp
  <2>6. QED BY <1>10, <2>4, <2>5 DEF CreateUploadApp
<1>11. ASSUME NEW a \in UApps, CmdInit(l, a) PROVE UploadInv'
  <2> DEFINE r == [laptop[l] EXCEPT !.link = {a}]
  <2>1. r \in LaptopType /\ r.up = laptop[l].up
    BY <1>1 DEF LaptopType, OneApp
  <2>2. laptop' = [laptop EXCEPT ![l] = r] /\ r.up.at # "inspect"
    BY <1>1, <1>11, <2>1 DEF CmdInit
  <2> HIDE DEF r
  <2>3. uapp' \in [UApps -> {"free", "upload", "git", "gone"}]
    BY <1>1, <1>11 DEF CmdInit
  <2>4. QED BY <1>1, <1>2, <1>11, <2>1, <2>2, <2>3, UMayIs, OnlyTheRest DEF CmdInit
<1>12. QED BY <1>3, <1>4, <1>5, <1>6, <1>7, <1>8, <1>9, <1>10, <1>11

\* The number of an upload is one of those received from that laptop.
LEMMA ReceivedAtIs ==
    ASSUME NEW a \in UApps, NEW l \in Laptops, sent[a] \in Seq(Receipt), \E i \in DOMAIN sent[a] : sent[a][i].by = l
    PROVE  ReceivedAt(a, l) \in DOMAIN sent[a] /\ ReceivedAt(a, l) \in Nat
<1> DEFINE n == Len(sent[a])
           T == {m \in 0 .. n : n - m \in DOMAIN sent[a] /\ sent[a][n - m].by = l}
<1>1. n \in Nat /\ DOMAIN sent[a] = 1 .. n
  OBVIOUS
<1>2. PICK i \in 1 .. n : sent[a][i].by = l
  BY <1>1
<1> HIDE DEF n
<1>3. n - i \in T
  <2>1. n - i \in 0 .. n /\ n - (n - i) = i
    BY <1>1, <1>2
  <2>2. QED BY <1>1, <1>2, <2>1
<1>4. T \subseteq Nat
  OBVIOUS
<1> HIDE DEF T
<1>5. PICK m \in T : \A y \in T : ~(<<y, m>> \in OpToRel(<, Nat))
  BY <1>3, <1>4, NatLessThanWellFounded, WFMin
<1>6. \A y \in T : ~(y < m)
  <2>1. \A y \in T : y < m => <<y, m>> \in OpToRel(<, Nat)
    BY <1>4, <1>5 DEF OpToRel
  <2>2. QED BY <1>5, <2>1
<1>7. n - m \in DOMAIN sent[a] /\ sent[a][n - m].by = l /\ m \in 0 .. n
  BY <1>5 DEF T
<1>8. \A j \in DOMAIN sent[a] : sent[a][j].by = l => j <= n - m
  <2>1. SUFFICES ASSUME NEW j \in 1 .. n, sent[a][j].by = l PROVE j <= n - m
    BY <1>1
  <2>2. n - j \in 0 .. n /\ n - (n - j) = j
    BY <1>1
  <2>3. n - j \in T
    BY <1>1, <2>1, <2>2 DEF T
  <2>4. ~(n - j < m)
    BY <1>6, <2>3
  <2>5. QED BY <1>1, <1>7, <2>2, <2>4
<1>9. ReceivedAt(a, l) \in DOMAIN sent[a]
  BY <1>7, <1>8 DEF ReceivedAt
<1>10. QED BY <1>1, <1>9

LEMMA SaveBeginsInv == ASSUME UploadInv, NEW l \in Laptops, SaveBegins(l) PROVE UploadInv'
<1>1. PICK a \in laptop[l].up.target :
        /\ sent' = [sent EXCEPT ![a] = Append(@, [sha |-> laptop[l].up.packed, by |-> l, kept |-> FALSE])]
        /\ dir' = [dir EXCEPT ![a] = {WithTemp(The(@), l)}]
  BY DEF SaveBegins
<1>2. /\ laptop[l].up \in Command /\ laptop \in [Laptops -> LaptopType] /\ laptop[l] \in LaptopType
      /\ UNCHANGED <<uapp, builds, given, projects, umix>>
      /\ laptop' = [laptop EXCEPT ![l].up.at = "inspect"]
  BY DEF SaveBegins, UploadInv, UploadTypeOK, LaptopType, UpTypes, NoCommand
<1>3. a \in UApps /\ laptop[l].up.packed \in Versions /\ \A b \in laptop[l].up.target : b = a
  BY <1>2 DEF Command, OneApp
<1> DEFINE e == [sha |-> laptop[l].up.packed, by |-> l, kept |-> FALSE]
<1>4. e \in Receipt /\ e.by = l
  BY <1>3 DEF Receipt
<1>5. sent \in [UApps -> Seq(Receipt)]
  BY DEF UploadInv, UploadTypeOK, Receipt
<1> HIDE DEF e
<1>6. sent' = [sent EXCEPT ![a] = Append(sent[a], e)]
  BY <1>1, <1>5 DEF e
<1>7. sent' \in [UApps -> Seq(Receipt)] /\ sent'[a] = Append(sent[a], e) /\ \A b \in UApps : b # a => sent'[b] = sent[b]
  BY <1>3, <1>4, <1>5, <1>6
<1>8. /\ \A b \in UApps : \A i \in DOMAIN sent[b] : i \in DOMAIN sent'[b] /\ sent'[b][i].by = sent[b][i].by
      /\ \E i \in DOMAIN sent'[a] : sent'[a][i].by = l
  <2>1. sent[a] \in Seq(Receipt)
    BY <1>3, <1>5
  <2>2. /\ \A i \in DOMAIN sent[a] : i \in DOMAIN sent'[a] /\ sent'[a][i] = sent[a][i]
        /\ Len(sent[a]) + 1 \in DOMAIN sent'[a] /\ sent'[a][Len(sent[a]) + 1] = e
    BY <1>4, <1>7, <2>1
  <2>3. QED BY <1>4, <1>7, <2>2
<1> DEFINE q == [laptop[l].up EXCEPT !.at = "inspect"]
           r == [laptop[l] EXCEPT !.up = q]
<1>9. q \in UpTypes /\ q.target = laptop[l].up.target
  BY <1>2 DEF UpTypes, Command
<1>10. laptop' = [laptop EXCEPT ![l] = r]
  BY <1>2
<1> HIDE DEF q
<1>11. r \in LaptopType /\ r.up = q
  BY <1>2, <1>9 DEF LaptopType
<1> HIDE DEF r
<1>12. laptop' \in [Laptops -> LaptopType] /\ ReceivedIsSent'
  BY <1>3, <1>8, <1>9, <1>10, <1>11, OneLaptopMoves
<1>13. QED
  <2> DEFINE d == WithTemp(The(dir[a]), l)
  <2>1. The(dir[a]) \in Directory /\ SoundDir(The(dir[a]))
    BY <1>3, WhatIsThere DEF UploadInv
  <2>2. The(dir[a]).temps \cup {l} \in SUBSET (Laptops \cup {"stale"})
    BY <2>1 DEF Directory
  <2>3. d \in Directory /\ SoundDir(d)
    <3> DEFINE T == The(dir[a]).temps \cup {l}
    <3>1. d = [The(dir[a]) EXCEPT !.temps = T]
      BY DEF WithTemp
    <3> HIDE DEF d, T
    <3>2. T \in SUBSET (Laptops \cup {"stale"})
      BY <2>2 DEF T
    <3>3. QED BY <2>1, <3>1, <3>2, TempsMove
  <2>4. dir' = [dir EXCEPT ![a] = {d}]
    BY <1>1
  <2> HIDE DEF d
  <2>5. QED BY <1>2, <1>7, <1>12, <2>3, <2>4, OneAppsDirMoves

LEMMA SaveEndsInv == ASSUME UploadInv, NEW l \in Laptops, SaveEnds(l) PROVE UploadInv'
<1>1. PICK a \in laptop[l].up.target :
        IF l \notin The(dir[a]).temps THEN Ends(l) /\ UNCHANGED <<dir, sent>>
        ELSE IF Inspect(ArchiveOf[laptop[l].up.packed]) # "ok"
               THEN Ends(l) /\ dir' = [dir EXCEPT ![a] = {WithoutTemp(The(@), l)}] /\ UNCHANGED sent
               ELSE /\ laptop' = [laptop EXCEPT ![l].up.at = "prune"]
                    /\ dir' = [dir EXCEPT ![a] = {Rename(The(@), l, laptop[l].up.packed, ReceivedAt(a, l))}]
                    /\ sent' = [sent EXCEPT ![a][ReceivedAt(a, l)].kept = TRUE]
  BY DEF SaveEnds
<1>2. /\ laptop[l].up \in Command /\ laptop \in [Laptops -> LaptopType] /\ laptop[l] \in LaptopType
      /\ UNCHANGED <<uapp, builds, given, projects, umix>> /\ laptop[l].up.at = "inspect"
  BY DEF SaveEnds, UploadInv, UploadTypeOK, LaptopType, UpTypes, NoCommand
<1>3. a \in UApps /\ laptop[l].up.packed \in Versions /\ \A b \in laptop[l].up.target : b = a
  BY <1>2 DEF Command, OneApp
<1>4. sent \in [UApps -> Seq(Receipt)] /\ dir \in [UApps -> SUBSET Directory]
  BY DEF UploadInv, UploadTypeOK, Receipt, Directory, Stored
<1>5. The(dir[a]) \in Directory /\ SoundDir(The(dir[a]))
  BY <1>3, WhatIsThere DEF UploadInv
<1>6. CASE l \notin The(dir[a]).temps
  <2>1. laptop' \in [Laptops -> LaptopType] /\ ReceivedIsSent' /\ UNCHANGED <<dir, sent>>
    BY <1>1, <1>6, EndsMoves
  <2>2. QED BY <1>2, <2>1, OnlyTheRest DEF UploadInv, UploadTypeOK
<1>7. CASE l \in The(dir[a]).temps /\ Inspect(ArchiveOf[laptop[l].up.packed]) # "ok"
  <2> DEFINE d == WithoutTemp(The(dir[a]), l)
  <2>1. The(dir[a]).temps \ {l} \in SUBSET (Laptops \cup {"stale"})
    BY <1>5 DEF Directory
  <2>2. d \in Directory /\ SoundDir(d)
    <3> DEFINE T == The(dir[a]).temps \ {l}
    <3>1. d = [The(dir[a]) EXCEPT !.temps = T]
      BY DEF WithoutTemp
    <3> HIDE DEF d, T
    <3>2. T \in SUBSET (Laptops \cup {"stale"})
      BY <2>1 DEF T
    <3>3. QED BY <1>5, <3>1, <3>2, TempsMove
  <2>3. dir' = [dir EXCEPT ![a] = {d}] /\ Ends(l) /\ UNCHANGED sent
    BY <1>1, <1>7
  <2> HIDE DEF d
  <2>4. laptop' \in [Laptops -> LaptopType] /\ ReceivedIsSent' /\ sent' \in [UApps -> Seq(Receipt)]
    BY <1>4, <2>3, EndsMoves
  <2>5. QED BY <1>2, <2>2, <2>3, <2>4, OneAppsDirMoves
<1>8. CASE l \in The(dir[a]).temps /\ Inspect(ArchiveOf[laptop[l].up.packed]) = "ok"
  <2> DEFINE n == ReceivedAt(a, l)
             d == Rename(The(dir[a]), l, laptop[l].up.packed, n)
             s == [sent[a] EXCEPT ![n].kept = TRUE]
  <2>1. n \in DOMAIN sent[a] /\ n \in Nat
    <3>1. \E i \in DOMAIN sent[a] : sent[a][i].by = l
      BY <1>1, <1>2 DEF UploadInv, ReceivedIsSent
    <3>2. QED BY <1>3, <1>4, <3>1, ReceivedAtIs
  <2>2. /\ laptop' = [laptop EXCEPT ![l].up.at = "prune"] /\ dir' = [dir EXCEPT ![a] = {d}]
        /\ sent' = [sent EXCEPT ![a] = s]
    BY <1>1, <1>4, <1>8
  <2>3. s \in Seq(Receipt) /\ \A i \in DOMAIN sent[a] : i \in DOMAIN s /\ s[i].by = sent[a][i].by
    <3> HIDE DEF n
    <3>1. sent[a] \in Seq(Receipt) /\ sent[a][n] \in Receipt
      BY <1>3, <1>4, <2>1
    <3> DEFINE e == [sent[a][n] EXCEPT !.kept = TRUE]
    <3>2. e \in Receipt /\ e.by = sent[a][n].by
      BY <3>1 DEF Receipt
    <3>3. s = [sent[a] EXCEPT ![n] = e]
      OBVIOUS
    <3> HIDE DEF e
    <3>4. s \in Seq(Receipt) /\ DOMAIN s = DOMAIN sent[a] /\ s[n] = e /\ \A i \in DOMAIN sent[a] : i # n => s[i] = sent[a][i]
      <4> HIDE DEF s
      <4> QED BY <2>1, <3>1, <3>2, <3>3, ChangeOne
    <3>5. QED BY <3>2, <3>4
  <2>4. d \in Directory /\ SoundDir(d)
    <3> HIDE DEF n
    <3>1. d = [temps |-> The(dir[a]).temps \ {l},
               stored |-> {u \in The(dir[a]).stored : u.sha # laptop[l].up.packed} \cup {[sha |-> laptop[l].up.packed, at |-> n]}]
      BY DEF Rename
    <3>2. [sha |-> laptop[l].up.packed, at |-> n] \in Stored
      BY <1>3, <2>1 DEF Stored
    <3>3. d \in Directory
      BY <1>5, <3>1, <3>2 DEF Directory
    <3>4. \A u \in d.stored : u \in The(dir[a]).stored \/ u.sha = laptop[l].up.packed
      BY <3>1
    <3>5. QED BY <1>5, <1>8, <3>3, <3>4 DEF SoundDir
  <2> HIDE DEF d, s, n
  <2>5. sent' \in [UApps -> Seq(Receipt)] /\ sent'[a] = s /\ \A b \in UApps : b # a => sent'[b] = sent[b]
    BY <1>3, <1>4, <2>2, <2>3
  <2> DEFINE q == [laptop[l].up EXCEPT !.at = "prune"]
             r == [laptop[l] EXCEPT !.up = q]
  <2>6. q \in UpTypes /\ q.at # "inspect"
    BY <1>2 DEF UpTypes, Command
  <2>7. laptop' = [laptop EXCEPT ![l] = r]
    BY <1>2, <2>2
  <2> HIDE DEF q
  <2>8. r \in LaptopType /\ r.up = q
    BY <1>2, <2>6 DEF LaptopType
  <2> HIDE DEF r
  <2>9. \A b \in UApps : \A i \in DOMAIN sent[b] : i \in DOMAIN sent'[b] /\ sent'[b][i].by = sent[b][i].by
    BY <2>3, <2>5
  <2>10. laptop' \in [Laptops -> LaptopType] /\ ReceivedIsSent'
    BY <2>6, <2>7, <2>8, <2>9, OneLaptopMoves
  <2>11. QED BY <1>2, <2>2, <2>4, <2>5, <2>10, OneAppsDirMoves
<1>9. QED BY <1>6, <1>7, <1>8

LEMMA PruneUploadsInv == ASSUME UploadInv, NEW l \in Laptops, PruneUploads(l) PROVE UploadInv'
<1>1. PICK a \in laptop[l].up.target : dir' = [dir EXCEPT ![a] = {[d EXCEPT !.stored = Pruned(@)] : d \in dir[a]}]
  BY DEF PruneUploads
<1>2. /\ laptop[l].up \in Command /\ UNCHANGED <<uapp, builds, sent, given, projects, umix>>
      /\ laptop' = [laptop EXCEPT ![l].up.at = "deploy"]
  BY DEF PruneUploads, UploadInv, UploadTypeOK, NoCommand
<1>3. a \in UApps
  BY <1>2 DEF Command, OneApp
<1>4. dir \in [UApps -> SUBSET Directory] /\ sent' \in [UApps -> Seq(Receipt)]
  BY <1>2 DEF UploadInv, UploadTypeOK, Receipt, Directory, Stored
<1>5. laptop' \in [Laptops -> LaptopType] /\ ReceivedIsSent'
  BY <1>2, StageMoves DEF PruneUploads
<1>6. CASE dir[a] = {}
  <2>1. dir' = dir
    BY <1>1, <1>4, <1>6
  <2>2. QED BY <1>2, <1>5, <2>1, OnlyTheRest DEF UploadInv, UploadTypeOK
<1>7. ASSUME NEW c \in dir[a] PROVE UploadInv'
  <2> DEFINE d == [c EXCEPT !.stored = Pruned(@)]
  <2>1. c \in Directory /\ SoundDir(c) /\ \A e \in dir[a] : e = c
    BY <1>3, <1>4 DEF UploadInv, StoredIsSound, UploadTypeOK
  <2>2. Pruned(c.stored) \subseteq c.stored
    BY DEF Pruned
  <2>3. d \in Directory /\ d.stored = Pruned(c.stored)
    BY <2>1, <2>2 DEF Directory
  <2>4. dir' = [dir EXCEPT ![a] = {d}]
    BY <1>1, <2>1
  <2> HIDE DEF d
  <2>5. SoundDir(d)
    BY <2>1, <2>2, <2>3 DEF SoundDir
  <2>6. QED BY <1>2, <1>4, <1>5, <2>3, <2>4, <2>5, OneAppsDirMoves
<1>8. QED BY <1>6, <1>7

\* A deployment of code that lies in the app's directory, and that was asked for or is the newest.
LEMMA QueueInv ==
    ASSUME UploadInv, laptop' \in [Laptops -> LaptopType], ReceivedIsSent', UNCHANGED <<uapp, dir, sent, given, projects>>,
           umix' \in [kinds : SUBSET UploadKinds, moves : Nat],
           NEW a \in UApps, NEW u \in The(dir[a]).stored, NEW by \in SUBSET Versions, by # {} => by = {u.sha},
           Queue(a, u, by)
    PROVE  UploadInv'
<1>1. The(dir[a]) \in Directory /\ SoundDir(The(dir[a]))
  BY WhatIsThere DEF UploadInv
<1>2. u \in Stored /\ Inspect(ArchiveOf[u.sha]) = "ok"
  BY <1>1 DEF Directory, SoundDir
<1> DEFINE e == [app |-> a, commit |-> u.sha, at |-> u.at, by |-> by, got |-> {}, status |-> "queued"]
           old == [i \in DOMAIN builds |-> IF builds[i].app = a /\ builds[i].status = "queued"
                                             THEN [builds[i] EXCEPT !.status = "superseded"] ELSE builds[i]]
<1>3. e \in Build /\ BuildOK(e)
  BY <1>2 DEF Build, Stored, BuildOK
<1>4. builds' = Append(old, e)
  BY DEF Queue
<1>5. builds \in Seq(Build) /\ \A i \in DOMAIN builds : builds[i] \in Build /\ BuildOK(builds[i])
  <2>1. builds \in Seq(Build)
    BY DEF UploadInv, UploadTypeOK, Build
  <2>2. QED BY <2>1 DEF UploadInv, BuildsAreSound
<1> HIDE DEF e
<1>6. ASSUME NEW i \in DOMAIN builds PROVE old[i] \in Build /\ BuildOK(old[i])
  <2>1. builds[i] \in Build /\ BuildOK(builds[i])
    BY <1>5
  <2>2. [builds[i] EXCEPT !.status = "superseded"] \in Build /\ BuildOK([builds[i] EXCEPT !.status = "superseded"])
    BY <2>1 DEF Build, BuildOK
  <2>3. QED BY <2>1, <2>2
<1>7. DOMAIN old = DOMAIN builds /\ old \in Seq(Build)
  <2>1. DOMAIN builds = 1 .. Len(builds) /\ Len(builds) \in Nat /\ DOMAIN old = DOMAIN builds
    BY <1>5
  <2>2. old \in [1 .. Len(builds) -> Build]
    BY <1>6, <2>1
  <2> HIDE DEF old
  <2>3. QED BY <2>1, <2>2
<1> HIDE DEF old
<1>8. builds' \in Seq(Build) /\ \A i \in DOMAIN builds' : builds'[i] = e \/ (i \in DOMAIN old /\ builds'[i] = old[i])
  BY <1>3, <1>4, <1>7
<1>9. BuildsAreSound'
  BY <1>3, <1>6, <1>7, <1>8 DEF BuildsAreSound
<1>10. UploadTypeOK'
  BY <1>8 DEF UploadInv, UploadTypeOK, LaptopType, UpTypes, Build
<1>11. StoredIsSound'
  BY DEF UploadInv, StoredIsSound
<1>12. QED BY <1>9, <1>10, <1>11 DEF UploadInv

LEMMA DeployUploadInv == ASSUME UploadInv, NEW l \in Laptops, DeployUpload(l) PROVE UploadInv'
<1>1. laptop[l].up \in Command /\ UNCHANGED <<uapp, dir, sent, given, projects, umix>> /\ Ends(l)
  BY DEF DeployUpload, UploadInv, UploadTypeOK, NoCommand
<1> DEFINE v == laptop[l].up.packed
<1>2. laptop' \in [Laptops -> LaptopType] /\ ReceivedIsSent' /\ v \in Versions /\ laptop[l].up.target \subseteq UApps
  BY <1>1, EndsMoves DEF Command, OneApp
<1>3. umix' \in [kinds : SUBSET UploadKinds, moves : Nat]
  BY <1>1 DEF UploadInv, UploadTypeOK
<1>4. \/ UNCHANGED builds
      \/ \E a \in laptop[l].up.target : \E u \in UploadToDeploy(a, {v}) : Queue(a, u, {v})
  BY DEF DeployUpload
<1> HIDE DEF v
<1>5. CASE UNCHANGED builds
  BY <1>1, <1>2, <1>3, <1>5, OnlyTheRest DEF UploadInv, UploadTypeOK
<1>6. ASSUME NEW a \in laptop[l].up.target, NEW u \in UploadToDeploy(a, {v}), Queue(a, u, {v}) PROVE UploadInv'
  <2>1. u \in The(dir[a]).stored /\ {u.sha} = {v}
    BY DEF UploadToDeploy
  <2>2. QED BY <1>1, <1>2, <1>3, <1>6, <2>1, QueueInv
<1>7. QED BY <1>4, <1>5, <1>6

LEMMA DeployButtonInv == ASSUME UploadInv, NEW a \in UApps, DeployButton(a) PROVE UploadInv'
<1>1. PICK u \in UploadToDeploy(a, {}) : Queue(a, u, {})
  BY DEF DeployButton
<1>2. u \in The(dir[a]).stored
  BY DEF UploadToDeploy, Newest
<1>3. UNCHANGED <<laptop, uapp, dir, sent, given, projects>> /\ umix' \in [kinds : SUBSET UploadKinds, moves : Nat]
  BY UMayIs DEF DeployButton, UploadInv
<1>4. laptop' \in [Laptops -> LaptopType] /\ ReceivedIsSent'
  BY <1>3 DEF UploadInv, UploadTypeOK, LaptopType, UpTypes, ReceivedIsSent
<1>5. QED BY <1>1, <1>2, <1>3, <1>4, QueueInv

\* What one build becomes; the others stay.
LEMMA DeliverUploadInv ==
    ASSUME UploadInv, NEW i \in DOMAIN builds, NEW ready \in BOOLEAN, DeliverUpload(i, ready) PROVE UploadInv'
<1> DEFINE found == {u \in The(dir[builds[i].app]).stored : u.sha = builds[i].commit}
           st == IF ~ready THEN "failed" ELSE IF found = {} THEN "missing" ELSE "delivered"
           got == IF ready THEN {u.sha : u \in found} ELSE {}
           b == [builds[i] EXCEPT !.status = st, !.got = got]
<1>1. builds \in Seq(Build) /\ builds[i] \in Build /\ BuildOK(builds[i])
  <2>1. builds \in Seq(Build)
    BY DEF UploadInv, UploadTypeOK, Build
  <2>2. QED BY <2>1 DEF UploadInv, BuildsAreSound
<1>2. builds' = [builds EXCEPT ![i] = b]
  BY <1>1 DEF DeliverUpload
<1>3. got \subseteq {builds[i].commit} /\ st \in {"failed", "missing", "delivered"} /\ builds[i].commit \in Versions
  BY <1>1 DEF Build
<1> HIDE DEF got, st
<1>4. b \in Build /\ BuildOK(b)
  BY <1>1, <1>3 DEF Build, BuildOK
<1> HIDE DEF b
<1>5. builds' \in Seq(Build) /\ DOMAIN builds' = DOMAIN builds /\ \A j \in DOMAIN builds : builds'[j] = b \/ builds'[j] = builds[j]
  BY <1>1, <1>2, <1>4, ChangeOne
<1>6. BuildsAreSound'
  BY <1>4, <1>5 DEF UploadInv, BuildsAreSound
<1>7. UNCHANGED <<laptop, uapp, dir, sent, given, projects>> /\ umix' \in [kinds : SUBSET UploadKinds, moves : Nat]
  <2>1. umix' = umix \/ UMay("cut")
    BY DEF DeliverUpload
  <2>2. umix \in [kinds : SUBSET UploadKinds, moves : Nat]
    BY DEF UploadInv, UploadTypeOK
  <2>3. QED BY <2>1, <2>2, UMayIs DEF DeliverUpload, UploadInv
<1>8. UploadTypeOK'
  BY <1>5, <1>7 DEF UploadInv, UploadTypeOK, Build
<1>9. ReceivedIsSent' /\ StoredIsSound'
  BY <1>7 DEF UploadInv, ReceivedIsSent, StoredIsSound
<1>10. QED BY <1>6, <1>8, <1>9 DEF UploadInv

\* What else happens to apps, directories and the panel.
LEMMA EndOfAppsInv ==
    ASSUME UploadInv, SweepUploads \/ PanelStops \/ DeleteProject \/ \E a \in UApps : DeleteApp(a) PROVE UploadInv'
<1>1. /\ laptop \in [Laptops -> LaptopType] /\ dir \in [UApps -> SUBSET Directory] /\ sent \in [UApps -> Seq(Receipt)]
      /\ ReceivedIsSent /\ \A a \in UApps : \A d \in dir[a] : SoundDir(d) /\ d \in Directory
  BY DEF UploadInv, UploadTypeOK, LaptopType, UpTypes, Directory, Stored, Receipt, StoredIsSound
<1>2. /\ \A a \in UApps : \A d, e \in dir[a] : d = e
      /\ uapp \in [UApps -> {"free", "upload", "git", "gone"}] /\ umix \in [kinds : SUBSET UploadKinds, moves : Nat]
      /\ UploadTypeOK
  BY DEF UploadInv, UploadTypeOK
<1>3. UNCHANGED <<laptop, sent>> => laptop' \in [Laptops -> LaptopType] /\ sent' \in [UApps -> Seq(Receipt)] /\ ReceivedIsSent'
  BY <1>1 DEF ReceivedIsSent
<1>4. CASE SweepUploads
  <2> DEFINE D == [a \in UApps |-> IF uapp[a] = "gone" THEN {} ELSE dir[a]]
  <2>1. dir' = D /\ UNCHANGED <<laptop, uapp, builds, sent, given, projects, umix>>
    BY <1>4 DEF SweepUploads
  <2>2. D \in [UApps -> SUBSET Directory] /\ (\A a \in UApps : \A d, e \in D[a] : d = e) /\ \A a \in UApps : \A d \in D[a] : SoundDir(d)
    BY <1>1, <1>2
  <2> HIDE DEF D
  <2>3. laptop' \in [Laptops -> LaptopType] /\ sent' \in [UApps -> Seq(Receipt)] /\ ReceivedIsSent'
    BY <1>1, <1>3, <2>1
  <2>4. QED BY <1>2, <2>1, <2>2, <2>3, OneDirMoves
<1>5. ASSUME NEW a \in UApps, DeleteApp(a) PROVE UploadInv'
  <2>1. /\ dir' \in {dir, [dir EXCEPT ![a] = {}]} /\ UNCHANGED <<laptop, builds, sent, given, projects>>
        /\ uapp' = [uapp EXCEPT ![a] = "gone"] /\ UMay("delete")
    BY <1>5 DEF DeleteApp
  <2>2. /\ dir' \in [UApps -> SUBSET Directory] /\ (\A b \in UApps : \A d, e \in dir'[b] : d = e)
        /\ \A b \in UApps : \A d \in dir'[b] : SoundDir(d)
    BY <1>1, <1>2, <2>1
  <2>3. /\ laptop' \in [Laptops -> LaptopType] /\ sent' \in [UApps -> Seq(Receipt)] /\ ReceivedIsSent'
        /\ uapp' \in [UApps -> {"free", "upload", "git", "gone"}] /\ umix' \in [kinds : SUBSET UploadKinds, moves : Nat]
    BY <1>1, <1>2, <1>3, <2>1, UMayIs
  <2>4. QED BY <2>1, <2>2, <2>3, OneDirMoves
<1>6. CASE DeleteProject
  <2>1. /\ uapp' \in [UApps -> {"free", "upload", "git", "gone"}] /\ umix' \in [kinds : SUBSET UploadKinds, moves : Nat]
        /\ projects' \in BOOLEAN /\ UNCHANGED <<laptop, dir, builds, sent, given>>
    BY <1>2, <1>6, UMayIs DEF DeleteProject
  <2>2. laptop' \in [Laptops -> LaptopType] /\ ReceivedIsSent'
    BY <1>1, <1>3, <2>1
  <2>3. QED BY <1>2, <2>1, <2>2, OnlyTheRest DEF UploadTypeOK
<1>7. CASE PanelStops
  <2> DEFINE D == [a \in UApps |-> {[d EXCEPT !.temps = IF @ = {} THEN {} ELSE {"stale"}] : d \in dir[a]}]
             B == [i \in DOMAIN builds |-> IF builds[i].status = "queued" THEN [builds[i] EXCEPT !.status = "failed"] ELSE builds[i]]
             M == [l \in Laptops |-> [laptop[l] EXCEPT !.up = NoCommand]]
  <2>1. laptop' = M /\ builds' = B /\ dir' = D /\ UNCHANGED <<uapp, sent, given, projects>> /\ UMay("crash")
    BY <1>7 DEF PanelStops
  <2>2. ASSUME NEW a \in UApps, NEW d \in dir[a], NEW e, e = [d EXCEPT !.temps = IF @ = {} THEN {} ELSE {"stale"}]
        PROVE  e \in Directory /\ SoundDir(e)
    <3> DEFINE T == IF d.temps = {} THEN {} ELSE {"stale"}
    <3>1. T \in SUBSET (Laptops \cup {"stale"}) /\ e = [d EXCEPT !.temps = T]
      BY <2>2
    <3> HIDE DEF T
    <3>2. QED BY <1>1, <3>1, TempsMove
  <2>3. D \in [UApps -> SUBSET Directory] /\ \A a \in UApps : \A d \in D[a] : SoundDir(d)
    BY <2>2
  <2>4. \A a \in UApps : \A d, e \in D[a] : d = e
    BY <1>2
  <2>5. ASSUME NEW i \in DOMAIN builds PROVE B[i] \in Build /\ BuildOK(B[i])
    <3>1. builds[i] \in Build /\ BuildOK(builds[i])
      <4>1. builds \in Seq(Build)
        BY DEF UploadInv, UploadTypeOK, Build
      <4>2. QED BY <4>1 DEF UploadInv, BuildsAreSound
    <3>2. [builds[i] EXCEPT !.status = "failed"] \in Build /\ BuildOK([builds[i] EXCEPT !.status = "failed"])
      BY <3>1 DEF Build, BuildOK
    <3>3. QED BY <3>1, <3>2
  <2>6. B \in Seq(Build) /\ DOMAIN B = DOMAIN builds
    <3>1. DOMAIN builds = 1 .. Len(builds) /\ Len(builds) \in Nat
      BY DEF UploadInv, UploadTypeOK
    <3>2. B \in [1 .. Len(builds) -> Build]
      BY <2>5, <3>1
    <3> HIDE DEF B
    <3>3. QED BY <3>1, <3>2
  <2>7. M \in [Laptops -> LaptopType] /\ \A l \in Laptops : M[l].up.at = "off"
    BY <1>1 DEF LaptopType, UpTypes, NoCommand
  <2>8. umix' \in [kinds : SUBSET UploadKinds, moves : Nat]
    BY <1>2, <2>1, UMayIs
  <2> HIDE DEF D, B, M
  <2>9. ReceivedIsSent'
    BY <2>1, <2>7 DEF ReceivedIsSent
  <2>10. BuildsAreSound' /\ StoredIsSound'
    BY <2>1, <2>3, <2>5, <2>6 DEF BuildsAreSound, StoredIsSound
  <2>11. /\ laptop' \in [Laptops -> LaptopType] /\ dir' \in [UApps -> SUBSET Directory] /\ builds' \in Seq(Build)
         /\ \A a \in UApps : \A d, e \in dir'[a] : d = e
    BY <2>1, <2>3, <2>4, <2>6, <2>7
  <2>12. UploadTypeOK'
    BY <1>2, <2>1, <2>8, <2>11 DEF UploadTypeOK, LaptopType, UpTypes, Directory, Stored, Build
  <2>13. QED BY <2>9, <2>10, <2>12 DEF UploadInv
<1>8. QED BY <1>4, <1>5, <1>6, <1>7

LEMMA UploadInitInv == UploadInit => UploadInv
<1> SUFFICES ASSUME UploadInit PROVE UploadInv
  OBVIOUS
<1>1. PICK v : v = CHOOSE w \in Versions : Inspect(ArchiveOf[w]) = "ok"
  OBVIOUS
<1>2. v \in Versions
  BY <1>1, SomethingToSend
<1>3. laptop = [l \in Laptops |-> [code |-> v, link |-> {}, up |-> NoCommand]]
  BY <1>1 DEF UploadInit
<1>4. laptop \in [Laptops -> LaptopType] /\ \A l \in Laptops : laptop[l].up.at = "off"
  BY <1>2, <1>3 DEF LaptopType, UpTypes, OneApp, NoCommand
<1>5. UploadTypeOK
  <2>1. umix \in [kinds : SUBSET UploadKinds, moves : Nat]
    BY UploadMixesAssumption DEF UploadInit
  <2>2. builds = <<>> /\ builds \in Seq(Build)
    BY DEF UploadInit
  <2>3. /\ dir \in [UApps -> SUBSET Directory] /\ \A a \in UApps : dir[a] = {}
        /\ uapp \in [UApps -> {"free", "upload", "git", "gone"}]
    BY DEF UploadInit
  <2>4. sent \in [UApps -> Seq(Receipt)]
    BY DEF UploadInit
  <2>5. given \in [UApps -> SUBSET ({"KEY", "DATABASE_URL"} \X {"file", "database"})] /\ projects \in BOOLEAN
    BY DEF UploadInit
  <2>6. QED BY <1>4, <2>1, <2>2, <2>3, <2>4, <2>5
            DEF UploadTypeOK, LaptopType, UpTypes, Directory, Stored, Receipt, Build
<1>6. ReceivedIsSent
  BY <1>4 DEF ReceivedIsSent
<1>7. StoredIsSound /\ BuildsAreSound
  BY DEF UploadInit, StoredIsSound, BuildsAreSound
<1>8. QED BY <1>5, <1>6, <1>7 DEF UploadInv

LEMMA UploadNextInv == UploadInv /\ [UploadNext]_uploadVars => UploadInv'
<1> SUFFICES ASSUME UploadInv, [UploadNext]_uploadVars PROVE UploadInv'
  OBVIOUS
<1>1. CASE SweepUploads \/ PanelStops \/ DeleteProject \/ \E a \in UApps : DeleteApp(a)
  BY <1>1, EndOfAppsInv
<1>2. ASSUME NEW l \in Laptops,
             \/ UpStep(l)
             \/ \E new, dotenv \in BOOLEAN : UpBegins(l, new, dotenv)
             \/ \E v \in Versions : Edit(l, v)
             \/ \E m \in Laptops : Clone(l, m)
             \/ \E a \in UApps : CmdInit(l, a)
      PROVE  UploadInv'
  BY <1>2, CommandInv, SaveBeginsInv, SaveEndsInv, PruneUploadsInv, DeployUploadInv DEF UpStep
<1>3. CASE \E a \in UApps : DeployButton(a)
  BY <1>3, DeployButtonInv
<1>4. CASE \E i \in DOMAIN builds, ready \in BOOLEAN : DeliverUpload(i, ready)
  BY <1>4, DeliverUploadInv
<1>5. CASE UNCHANGED uploadVars
  <2>1. UploadTypeOK'
    BY <1>5 DEF uploadVars, UploadInv, UploadTypeOK
  <2>2. QED BY <1>5, <2>1 DEF uploadVars, UploadInv, ReceivedIsSent, StoredIsSound, BuildsAreSound
<1>6. QED BY <1>1, <1>2, <1>3, <1>4, <1>5 DEF UploadNext

\* However many people send to however many apps, and whenever the panel stops: every variable has its type.
THEOREM UploadTypeCorrect == UploadSpec => []UploadTypeOK
<1>1. UploadInv => UploadTypeOK
  BY DEF UploadInv
<1>2. QED BY <1>1, UploadInitInv, UploadNextInv, PTL DEF UploadSpec

\* What a build is given is the code that was packed by the person who asked for it, and the panel
\* found nothing wrong with it, whoever sends, overwrites, prunes, deletes or restarts in between.
THEOREM BuildsWhatWasSentAlways == UploadSpec => []BuildsWhatWasSent
<1>1. UploadInv => BuildsWhatWasSent
  BY DEF UploadInv, BuildsAreSound, BuildOK, BuildsWhatWasSent
<1>2. QED BY <1>1, UploadInitInv, UploadNextInv, PTL DEF UploadSpec
=============================================================================
