------------------------------ MODULE AaaConfig ------------------------------
(***************************************************************************)
(* internal/cli/aaa_cmd.go and aaa_eval.go: local users, schemes and       *)
(* domains of a device.  Each lives in keys of one map only, so a user     *)
(* exists while a key of one of its attributes does, a scheme while its    *)
(* mode does and a domain while its state does; a domain names the schemes *)
(* it is bound to.  Views nest: a scheme's and a domain's lie in the AAA   *)
(* view, and that in the system view.                                      *)
(***************************************************************************)
EXTENDS Functions

CONSTANTS
  Users, Schemes, Domains, \* names
  NoScheme,
  Unset                    \* the mode of a scheme that has only been created

Kinds      == {"authen", "author", "acct"}
Attributes == {"password", "privilege", "service-type", "state"}

\* What the three mode commands accept.
Allowed(k) == CASE k = "authen" -> {"local", "radius", "none"}
                [] k = "author" -> {"local", "none"}
                [] k = "acct"   -> {"none", "radius"}

ASSUME AaaAssumption == NoScheme \notin Schemes /\ \A k \in Kinds : Unset \notin Allowed(k)

VARIABLES
  aaaView, \* [view, of]: the scheme or domain a nested view belongs to is in of
  users,   \* the pairs of a user and an attribute that have a key
  mode,    \* scheme of a kind -> mode, for those that exist
  domain   \* domain -> [state, bound], for those that exist

aaaVars == <<aaaView, users, mode, domain>>

View(v, o) == [view |-> v, of |-> o]
Outside    == View("System", <<>>)
Top        == View("AAA", <<>>)
InView(v)  == aaaView.view = v

NoKeys == [x \in {} |-> Unset]
Fresh  == [state |-> "active", bound |-> [k \in Kinds |-> NoScheme]]

Put(f, x, y) == [z \in DOMAIN f \cup {x} |-> IF z = x THEN y ELSE f[z]]

AaaInit == aaaView = Outside /\ users = {} /\ mode = NoKeys /\ domain = NoKeys

-----------------------------------------------------------------------------
(* Views.                                                                  *)

EnterAAA ==
  /\ aaaView = Outside
  /\ aaaView' = Top
  /\ UNCHANGED <<users, mode, domain>>

\* quit goes up one level; system-view and return leave at once.
QuitAAA ==
  /\ aaaView # Outside
  /\ aaaView' \in {IF aaaView = Top THEN Outside ELSE Top, Outside}
  /\ UNCHANGED <<users, mode, domain>>

\* {authentication | authorization | accounting}-scheme <s>, in the AAA view or in a
\* scheme's: the scheme is created with no mode unless it exists.
EnterScheme(k, s) ==
  /\ InView("AAA") \/ InView("Scheme")
  /\ aaaView' = View("Scheme", <<k, s>>)
  /\ mode' = [x \in DOMAIN mode \cup {<<k, s>>} |-> IF x \in DOMAIN mode THEN mode[x] ELSE Unset]
  /\ UNCHANGED <<users, domain>>

\* domain <d>, in the AAA view or in a domain's
EnterDomain(d) ==
  /\ InView("AAA") \/ InView("Domain")
  /\ aaaView' = View("Domain", <<d>>)
  /\ domain' = [x \in DOMAIN domain \cup {d} |-> IF x \in DOMAIN domain THEN domain[x] ELSE Fresh]
  /\ UNCHANGED <<users, mode>>

-----------------------------------------------------------------------------
(* Users.                                                                  *)

\* local-user <u> <attribute>: state active is the absence of its key.
SetUser(u, a) ==
  /\ InView("AAA")
  /\ \/ users' = users \cup {<<u, a>>}
     \/ a = "state" /\ users' = users \ {<<u, a>>}
  /\ UNCHANGED <<aaaView, mode, domain>>

UserExists(u) == \E a \in Attributes : <<u, a>> \in users

\* undo local-user <u>, whole or one attribute of it
UndoUser(u, A) ==
  /\ InView("AAA") /\ UserExists(u)
  /\ users' = users \ ({u} \X A)
  /\ UNCHANGED <<aaaView, mode, domain>>

-----------------------------------------------------------------------------
(* Schemes and domains.                                                    *)

\* {authentication | authorization | accounting}-mode <m>, in the view of a scheme of
\* that kind
SetSchemeMode(m) ==
  /\ InView("Scheme") /\ m \in Allowed(aaaView.of[1])
  /\ mode' = Put(mode, aaaView.of, m)
  /\ UNCHANGED <<aaaView, users, domain>>

SchemeExists(k, s) == <<k, s>> \in DOMAIN mode

\* A domain's entry is written where its keys are: a key of a domain without a state
\* key would not make it exist.
Rewrite(d, entry) == domain' = Put(domain, d, entry)

\* state <s>, undo state
SetDomainState(s) ==
  /\ InView("Domain")
  /\ LET d == aaaView.of[1] IN Rewrite(d, [domain[d] EXCEPT !.state = s])
  /\ UNCHANGED <<aaaView, users, mode>>

\* {authentication | ...}-scheme <s> in a domain's view: only a scheme that exists.
BindScheme(k, s) ==
  /\ InView("Domain") /\ SchemeExists(k, s)
  /\ LET d == aaaView.of[1] IN Rewrite(d, [domain[d] EXCEPT !.bound[k] = s])
  /\ UNCHANGED <<aaaView, users, mode>>

UnbindScheme(k) ==
  /\ InView("Domain")
  /\ LET d == aaaView.of[1] IN Rewrite(d, [domain[d] EXCEPT !.bound[k] = NoScheme])
  /\ UNCHANGED <<aaaView, users, mode>>

Referencing(k, s) == {d \in DOMAIN domain : domain[d].bound[k] = s}

\* Mutant: a scheme is deleted without a look at the domains.
UndoSchemeAnyway(k, s) ==
  /\ InView("AAA") /\ SchemeExists(k, s)
  /\ mode' = Restrict(mode, DOMAIN mode \ {<<k, s>>})
  /\ UNCHANGED <<aaaView, users, domain>>

\* undo {authentication | ...}-scheme <s>, in the AAA view: refused while a domain is
\* bound to it.
UndoScheme(k, s) ==
  /\ InView("AAA") /\ SchemeExists(k, s)
  /\ Referencing(k, s) = {}
  /\ mode' = Restrict(mode, DOMAIN mode \ {<<k, s>>})
  /\ UNCHANGED <<aaaView, users, domain>>

UndoDomain(d) ==
  /\ InView("AAA") /\ d \in DOMAIN domain
  /\ domain' = Restrict(domain, DOMAIN domain \ {d})
  /\ UNCHANGED <<aaaView, users, mode>>

\* undo aaa, in the system view: every key at once.
UndoAAA ==
  /\ aaaView = Outside
  /\ users' = {} /\ mode' = NoKeys /\ domain' = NoKeys
  /\ UNCHANGED aaaView

AaaNext ==
  \/ EnterAAA \/ QuitAAA \/ UndoAAA
  \/ \E u \in Users, a \in Attributes : SetUser(u, a) \/ UndoUser(u, {a})
  \/ \E u \in Users : UndoUser(u, Attributes)
  \/ \E k \in Kinds, s \in Schemes : EnterScheme(k, s) \/ BindScheme(k, s) \/ UndoScheme(k, s)
  \/ \E k \in Kinds : UnbindScheme(k)
  \/ \E d \in Domains : EnterDomain(d) \/ UndoDomain(d)
  \/ \E m \in {"local", "radius", "none"} : SetSchemeMode(m)
  \/ \E s \in {"active", "block"} : SetDomainState(s)

AaaSpec == AaaInit /\ [][AaaNext]_aaaVars

-----------------------------------------------------------------------------
(* Properties.                                                             *)

SchemeNames == Kinds \X Schemes
Entries     == [state : {"active", "block"}, bound : [Kinds -> Schemes \cup {NoScheme}]]

AaaTypeOK ==
  /\ \/ aaaView \in {Outside, Top}
     \/ \E x \in SchemeNames : aaaView = View("Scheme", x)
     \/ \E d \in Domains : aaaView = View("Domain", <<d>>)
  /\ users \subseteq Users \X Attributes
  /\ DOMAIN mode \subseteq SchemeNames
  /\ \A x \in DOMAIN mode : mode[x] \in Allowed(x[1]) \cup {Unset}
  /\ DOMAIN domain \subseteq Domains
  /\ domain \in [DOMAIN domain -> Entries]

\* A scheme that a domain is bound to exists, and so does the scheme or domain in whose
\* view the session is, whatever has been undone and created since (aaa_cmd.go: binding
\* to a scheme that does not exist and deleting one that is referenced are refused).
AaaReferencesResolve ==
  /\ AaaTypeOK
  /\ \A d \in DOMAIN domain, k \in Kinds :
       domain[d].bound[k] # NoScheme => SchemeExists(k, domain[d].bound[k])
  /\ InView("Scheme") => aaaView.of \in DOMAIN mode
  /\ InView("Domain") => aaaView.of[1] \in DOMAIN domain
=============================================================================
