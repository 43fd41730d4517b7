------------------------------ MODULE Snippets ------------------------------
(***************************************************************************)
(* Integration code (apps/api, modules/playground/codegen.ts) and the tabs *)
(* that show it (apps/web, CodeTabs.tsx).                                  *)
(*                                                                         *)
(* A snippet is abstracted to the request it makes when it is run: which   *)
(* of the user's headers it sets, whether it sends the body, and where it  *)
(* puts the credential it reads from the environment.                      *)
(***************************************************************************)
EXTENDS Integers, FiniteSets

CONSTANTS
  HeaderNames,     \* names of headers a user may add
  Forbidden,       \* FORBIDDEN_PROXY_HEADERS among them
  Fetches          \* handles of requests for a snippet

ASSUME SnippetsAssumption == Forbidden \subseteq HeaderNames

VARIABLES
  tab,         \* CodeTabs: the language chosen, the code shown, whether it loads
  fetches,     \* the requests of CodeTabs' effect
  generated    \* a snippet generated for a caller of the API, and its request

snippetVars == <<tab, fetches, generated>>

Languages == {"curl", "javascript-fetch", "typescript-fetch", "javascript-axios",
              "python-requests", "python-httpx", "go", "java", "csharp", "php", "ruby", "rust"}

(* A request: the headers that are enabled, and the credential to apply.     *)
Auths == {"none", "bearer", "header", "query", "basic"}
Requests == [headers : SUBSET HeaderNames, auth : Auths, body : BOOLEAN,
             method : {"GET", "POST"}]

-----------------------------------------------------------------------------
(* The executor's side of it                                                 *)

(* buildHeaders() and buildUrl(): the request the playground itself makes.   *)
sentByExecutor(r) ==
  [headers |-> r.headers \ Forbidden,
   credential |-> r.auth,
   body |-> r.body /\ r.method # "GET"]

-----------------------------------------------------------------------------
(* The generators                                                            *)

(* buildContext().                                                           *)
buildContext(r) ==
  [headers |-> r.headers, body |-> r.body, auth |-> r.auth,
   secretPlacement |-> CASE r.auth \in {"bearer", "header"} -> "header"
                         [] r.auth = "none" -> "null"
                         [] OTHER -> r.auth]

(* What a snippet sends: a generator that writes nothing for a placement     *)
(* leaves the credential out.                                                *)
sends(context, placements) ==
  [headers |-> context.headers, body |-> context.body,
   credential |-> IF context.secretPlacement \in placements THEN context.auth ELSE "none"]

(* A credential in the query stands inside single quotes, where the shell    *)
(* does not expand it.                                                       *)
curl(context) ==
  [sends(context, {"header", "basic"}) EXCEPT
     !.credential = IF context.secretPlacement = "query" THEN "literal" ELSE @]

(* renderFetch() with renderJsHeaders().                                     *)
renderFetch(context) == sends(context, {"header", "query", "basic"})

(* The headers refer to apiKey, and this snippet declares api_key: with a    *)
(* credential in a header it fails before it sends anything.                 *)
axios(context) ==
  IF context.secretPlacement = "header"
  THEN [headers |-> {}, body |-> FALSE, credential |-> "undefined"]
  ELSE sends(context, {"query", "basic"})

renderPython(context) == sends(context, {"header", "query"})
go(context)     == sends(context, {"header", "query"})
java(context)   == sends(context, {"header"})
csharp(context) == sends(context, {"header"})
php(context)    == sends(context, {"header"})
ruby(context)   == sends(context, {"header"})
rust(context)   == sends(context, {"header"})

generateCode(language, r) ==
  LET context == buildContext(r) IN
  CASE language = "curl" -> curl(context)
    [] language \in {"javascript-fetch", "typescript-fetch"} -> renderFetch(context)
    [] language = "javascript-axios" -> axios(context)
    [] language \in {"python-requests", "python-httpx"} -> renderPython(context)
    [] language = "go" -> go(context)
    [] language = "java" -> java(context)
    [] language = "csharp" -> csharp(context)
    [] language = "php" -> php(context)
    [] language = "ruby" -> ruby(context)
    [] language = "rust" -> rust(context)

-----------------------------------------------------------------------------
(* CodeTabs                                                                  *)

TabLanguages == Languages \ {"javascript-axios", "python-httpx"}
noFetch == [of |-> "none", cancelled |-> FALSE]

(* The credential the tabs ask for, by the API's authentication type.        *)
tabAuth(authType) ==
  CASE authType = "apiKey" -> "header"
    [] authType \in {"bearer", "oauth2", "jwt"} -> "bearer"
    [] OTHER -> "none"

(* The effect has just run for the first time.                               *)
snippetsInit ==
  /\ tab = [language |-> "curl", code |-> "none", loading |-> TRUE]
  /\ fetches = [[f \in Fetches |-> noFetch]
                  EXCEPT ![CHOOSE f \in Fetches : TRUE] = [of |-> "curl", cancelled |-> FALSE]]
  /\ generated = [language |-> "none"]

(* Mutant: the effect's cleanup does not cancel.                             *)
setLanguageOnly(f, language) ==
  /\ fetches[f] = noFetch /\ language # tab.language
  /\ fetches' = [fetches EXCEPT ![f] = [of |-> language, cancelled |-> FALSE]]
  /\ tab' = [tab EXCEPT !.language = language, !.loading = TRUE]
  /\ UNCHANGED generated

(* A tab is clicked: the effect's cleanup cancels, and the effect runs.      *)
setLanguage(f, language) ==
  /\ fetches[f] = noFetch /\ language # tab.language
  /\ fetches' = [g \in Fetches |->
       CASE g = f -> [of |-> language, cancelled |-> FALSE]
         [] fetches[g] # noFetch /\ g # f -> [fetches[g] EXCEPT !.cancelled = TRUE]
         [] OTHER -> noFetch]
  /\ tab' = [tab EXCEPT !.language = language, !.loading = TRUE]
  /\ UNCHANGED generated

(* The answer arrives, or the request fails; a cancelled one is ignored.     *)
arrive(f, code) ==
  /\ fetches[f] # noFetch
  /\ fetches' = [fetches EXCEPT ![f] = noFetch]
  /\ tab' = IF fetches[f].cancelled THEN tab
            ELSE [tab EXCEPT !.code = code, !.loading = FALSE]
  /\ UNCHANGED generated

(* POST /playground/code, by any caller.                                     *)
postCode(language, r) ==
  /\ generated.language = "none"
  /\ generated' = [language |-> language, request |-> r, sends |-> generateCode(language, r)]
  /\ UNCHANGED <<tab, fetches>>

tabsNext == \E f \in Fetches :
  \/ \E language \in TabLanguages : setLanguage(f, language)
  \/ fetches[f] # noFetch /\ arrive(f, fetches[f].of)
  \/ fetches[f] # noFetch /\ arrive(f, "failed")

generateNext == \E language \in Languages, r \in Requests : postCode(language, r)

-----------------------------------------------------------------------------
(* Properties                                                                *)

(* However fast the tabs are clicked and in whatever order the answers come, *)
(* code that is not marked as loading is that of the chosen language, or the *)
(* note that it could not be had (CodeTabs.tsx, the effect's cleanup).       *)
TabShowsItsLanguage == ~tab.loading => tab.code \in {tab.language, "failed"}

(* "Mirror the API's real auth model so the snippet shows the right          *)
(* credential placement" (CodeTabs.tsx:60-61): for whatever the tabs may ask *)
(* for, a snippet puts the credential where the playground's own request has *)
(* it, in every language offered.                                            *)
SnippetsAuthenticate ==
  /\ generated.language \in TabLanguages
  /\ \E authType \in {"apiKey", "oauth2", "none"} : generated.request.auth = tabAuth(authType)
  => generated.sends.credential = sentByExecutor(generated.request).credential
=============================================================================
