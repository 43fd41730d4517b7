----------------------------- MODULE PageEffects -----------------------------
(***************************************************************************)
(* Timers and late answers in the page: the command palette with its       *)
(* debounced suggestions (apps/web, CommandPalette.tsx and hooks.ts, opened *)
(* from Header.tsx), the stack of notifications (Toast.tsx), the assistant *)
(* (Assistant.tsx) and the copy button (hooks.ts).                         *)
(*                                                                         *)
(* A state change and the effects it triggers are one step.  A query is    *)
(* abstracted to what was typed, without the spaces around it.             *)
(***************************************************************************)
EXTENDS Integers, Sequences, FiniteSets, SequencesExt

CONSTANTS
  Queries,         \* texts of two characters or more
  Lookups,         \* handles of requests for suggestions
  MaxSuggestionRows, \* rows an answer has at most
  StackLimit,      \* notifications kept
  MaxToasts,       \* bound: notifications ever raised
  MaxAsks,         \* bound: questions sent to the assistant
  ResetAfter,      \* resetAfterMs of the copy button
  MaxCopies        \* bound: copies under way at once

ASSUME PageAssumption ==
  StackLimit \in Nat \ {0} /\ MaxToasts \in Nat /\ MaxAsks \in Nat /\ MaxSuggestionRows \in Nat
  /\ ResetAfter \in Nat \ {0} /\ MaxCopies \in Nat

ASSUME QueryAssumption == "" \notin Queries

VARIABLES
  open,          \* Header: the palette is open
  query,         \* what is in the field
  debounced,     \* useDebouncedValue(query)
  timerArmed,    \* the debounce timer runs
  suggestions,   \* the rows shown: [of: query, rows: number]
  spinning,      \* the palette's loading flag
  activeIndex,   \* the highlighted row, from 0
  lookups,       \* requests for suggestions
  toasts,        \* Toast.tsx: ids of the notifications shown, oldest first
  toastTimers,   \* ids whose timer runs
  nextId,        \* the next id
  prompt,        \* Assistant: what is in the text area with its toggles, "short" or "long"
  result,        \* the question whose answer is shown; 0: none
  loading,       \* its loading flag
  asking,        \* questions under way
  asked,         \* history: questions sent, which number them
  together,      \* history: the last one, and those under way when it was sent
  copied,        \* the button says "Copied"
  copyTimers,    \* what is left of the timers that reset it
  copying,       \* calls of writeText() under way
  sinceCopy      \* history: time since the last text was copied, up to ResetAfter

paletteVars == <<open, query, debounced, timerArmed, suggestions, spinning, activeIndex, lookups>>
toastVars == <<toasts, toastTimers, nextId>>
assistantVars == <<prompt, result, loading, asking, asked, together>>
copyVars == <<copied, copyTimers, copying, sinceCopy>>
restOfPage == <<toastVars, assistantVars, copyVars>>
pageVars == <<paletteVars, restOfPage>>

noLookup == [of |-> "", cancelled |-> FALSE]
empty == [of |-> "", rows |-> 0]
QuickActions == 5

(* A text of one character is not looked up, but it can be searched for.     *)
oneCharacter == "w"
TypedTexts == Queries \cup {"", oneCharacter}

(* items: the quick actions, or the suggestions and the full-text search.    *)
itemsFor(text, shown) == IF text = "" THEN QuickActions ELSE shown.rows + 1

pageInit ==
  /\ open = FALSE /\ query = "" /\ debounced = "" /\ timerArmed = FALSE
  /\ suggestions = empty /\ spinning = FALSE /\ activeIndex = 0
  /\ lookups = [l \in Lookups |-> noLookup]
  /\ toasts = <<>> /\ toastTimers = {} /\ nextId = 1
  /\ prompt = "short" /\ result = 0 /\ loading = FALSE
  /\ asking = {} /\ asked = 0 /\ together = {}
  /\ copied = FALSE /\ copyTimers = {} /\ copying = 0 /\ sinceCopy = ResetAfter

-----------------------------------------------------------------------------
(* The palette                                                               *)

cancelAll == [l \in Lookups |-> IF lookups[l] = noLookup THEN noLookup
                                ELSE [lookups[l] EXCEPT !.cancelled = TRUE]]

(* The effect on [debouncedQuery, open]: its cleanup cancels the request     *)
(* under way, then it looks the query up, or clears the rows.  The spinner   *)
(* is left as it is in the second case.                                      *)
suggestEffect(isOpen, text) ==
  IF isOpen /\ text \in Queries
  THEN \E l \in Lookups :
         /\ lookups[l] = noLookup
         /\ lookups' = [cancelAll EXCEPT ![l] = [of |-> text, cancelled |-> FALSE]]
         /\ spinning' = TRUE /\ UNCHANGED suggestions
  ELSE lookups' = cancelAll /\ suggestions' = empty /\ UNCHANGED spinning

(* The effect on [items.length].                                             *)
activeAfter(text, shown) ==
  IF itemsFor(text, shown) = itemsFor(query, suggestions) THEN activeIndex ELSE 0

openPalette ==
  /\ ~open /\ open' = TRUE
  /\ suggestEffect(TRUE, debounced)
  /\ UNCHANGED <<query, debounced, timerArmed, activeIndex, restOfPage>>

(* Escape, the backdrop, or a choice; the effect on [open] resets.           *)
onClose ==
  /\ open /\ open' = FALSE
  /\ query' = "" /\ activeIndex' = 0
  /\ timerArmed' = (query # "" \/ timerArmed)
  /\ suggestEffect(FALSE, debounced)
  /\ UNCHANGED <<debounced, restOfPage>>

(* A keystroke: useDebouncedValue restarts its timer.                        *)
type(text) ==
  /\ open /\ text # query
  /\ query' = text /\ timerArmed' = TRUE
  /\ activeIndex' = activeAfter(text, suggestions)
  /\ UNCHANGED <<open, debounced, suggestions, spinning, lookups, restOfPage>>

debounceFires ==
  /\ timerArmed /\ timerArmed' = FALSE /\ debounced' = query
  /\ IF debounced = query THEN UNCHANGED <<lookups, suggestions, spinning>>
     ELSE suggestEffect(open, query)
  /\ activeIndex' = activeAfter(query, suggestions')
  /\ UNCHANGED <<open, query, restOfPage>>

(* Mutant: an answer is shown although its effect was cleaned up.            *)
answerAlways(l, rows) ==
  /\ lookups[l] # noLookup
  /\ lookups' = [lookups EXCEPT ![l] = noLookup]
  /\ suggestions' = [of |-> lookups[l].of, rows |-> rows] /\ spinning' = FALSE
  /\ activeIndex' = activeAfter(query, suggestions')
  /\ UNCHANGED <<open, query, debounced, timerArmed, restOfPage>>

(* The answer, or 0 rows for a failed request.                               *)
answer(l, rows) ==
  /\ lookups[l] # noLookup
  /\ lookups' = [lookups EXCEPT ![l] = noLookup]
  /\ IF lookups[l].cancelled THEN UNCHANGED <<suggestions, spinning>>
     ELSE suggestions' = [of |-> lookups[l].of, rows |-> rows] /\ spinning' = FALSE
  /\ activeIndex' = activeAfter(query, suggestions')
  /\ UNCHANGED <<open, query, debounced, timerArmed, restOfPage>>

arrow(step) == LET count == itemsFor(query, suggestions) IN
  /\ open
  /\ activeIndex' = (activeIndex + step + count) % count
  /\ UNCHANGED <<open, query, debounced, timerArmed, suggestions, spinning, lookups, restOfPage>>

paletteNext ==
  \/ openPalette \/ onClose \/ debounceFires \/ arrow(1) \/ arrow(-1)
  \/ \E text \in TypedTexts : type(text)
  \/ \E l \in Lookups, rows \in 0..MaxSuggestionRows : answer(l, rows)

-----------------------------------------------------------------------------
(* Notifications                                                             *)

(* toast(): the stack is cut to its newest entries; the timer is armed.      *)
toast ==
  /\ nextId <= MaxToasts /\ nextId' = nextId + 1
  /\ LET all == Append(toasts, nextId) IN
       toasts' = SubSeq(all, IF Len(all) > StackLimit THEN Len(all) - StackLimit + 1 ELSE 1, Len(all))
  /\ toastTimers' = toastTimers \cup {nextId}

(* Mutant: by position, as it was when the timer was armed.                  *)
dismissFirst(id) ==
  /\ id \in toastTimers \cup ToSet(toasts)
  /\ toasts' = IF toasts = <<>> THEN <<>> ELSE Tail(toasts)
  /\ toastTimers' = toastTimers \ {id}
  /\ UNCHANGED <<nextId, paletteVars, assistantVars, copyVars>>

(* dismiss(): by its timer, also that of an entry cut off before, or by its  *)
(* button.  The filter finds one entry of an id at most, see ToastsExpire.   *)
dismiss(id) ==
  /\ id \in toastTimers \cup ToSet(toasts)
  /\ \/ id \notin ToSet(toasts) /\ UNCHANGED toasts
     \/ \E i \in DOMAIN toasts : toasts[i] = id /\ toasts' = RemoveAt(toasts, i)
  /\ toastTimers' = toastTimers \ {id}
  /\ UNCHANGED <<nextId, paletteVars, assistantVars, copyVars>>

toastNext ==
  \/ toast /\ UNCHANGED <<paletteVars, assistantVars, copyVars>>
  \/ \E id \in 1..MaxToasts : dismiss(id)

-----------------------------------------------------------------------------
(* The assistant.  The toggles are part of what is asked.                    *)

edit ==
  /\ prompt' \in {"short", "long"} \ {prompt}
  /\ UNCHANGED <<result, loading, asking, asked, together, paletteVars, toastVars, copyVars>>

(* submit() up to its await; a prompt that says too little is refused with a *)
(* notification.                                                             *)
submit(text) ==
  /\ IF text = "short"
     THEN toast /\ UNCHANGED <<result, loading, asking, asked, together>>
     ELSE /\ asked < MaxAsks /\ asked' = asked + 1
          /\ loading' = TRUE /\ result' = 0
          /\ asking' = asking \cup {asked'} /\ together' = asking'
          /\ UNCHANGED toastVars
  /\ UNCHANGED <<paletteVars, copyVars>>

(* The button is disabled while loading; Ctrl-Enter is not.                  *)
pressEnter == submit(prompt) /\ UNCHANGED prompt
clickFind == ~loading /\ submit(prompt) /\ UNCHANGED prompt

(* An example fills the text area and is submitted.                          *)
clickExample == result = 0 /\ ~loading /\ prompt' = "long" /\ submit("long")

(* Mutant: only an answer ends the loading.                                  *)
questionAnsweredOnly(i) ==
  /\ i \in asking /\ asking' = asking \ {i}
  /\ \/ result' = i /\ loading' = FALSE /\ UNCHANGED toastVars
     \/ toast /\ UNCHANGED <<result, loading>>
  /\ UNCHANGED <<prompt, asked, together, paletteVars, copyVars>>

(* The answer, or a failure with its notification; loading ends with either. *)
questionSettles(i) ==
  /\ i \in asking /\ asking' = asking \ {i} /\ loading' = FALSE
  /\ \/ result' = i /\ UNCHANGED toastVars
     \/ toast /\ UNCHANGED result
  /\ UNCHANGED <<prompt, asked, together, paletteVars, copyVars>>

assistantNext ==
  \/ edit \/ pressEnter \/ clickFind \/ clickExample
  \/ \E i \in asking : questionSettles(i)
  \/ \E id \in 1..MaxToasts : dismiss(id)

-----------------------------------------------------------------------------
(* The copy button                                                           *)

copy ==
  /\ copying < MaxCopies /\ copying' = copying + 1
  /\ UNCHANGED <<copied, copyTimers, sinceCopy, paletteVars, toastVars, assistantVars>>

(* Mutant: the timer of the copy before goes on.                             *)
writtenOverTimer ==
  /\ copying > 0 /\ copying' = copying - 1
  /\ copied' = TRUE /\ copyTimers' = copyTimers \cup {ResetAfter} /\ sinceCopy' = 0
  /\ UNCHANGED <<paletteVars, toastVars, assistantVars>>

(* The text is in the clipboard: the timer that was armed is cleared, and    *)
(* another one is.                                                           *)
written ==
  /\ copying > 0 /\ copying' = copying - 1
  /\ copied' = TRUE /\ copyTimers' = {ResetAfter} /\ sinceCopy' = 0
  /\ UNCHANGED <<paletteVars, toastVars, assistantVars>>

(* The browser refuses.                                                      *)
denied ==
  /\ copying > 0 /\ copying' = copying - 1
  /\ UNCHANGED <<copied, copyTimers, sinceCopy, paletteVars, toastVars, assistantVars>>

(* Time passes; a timer that is due resets the button.                       *)
copyElapse ==
  /\ copyTimers # {}
  /\ copyTimers' = {t - 1 : t \in copyTimers} \ {0} /\ copied' = (copied /\ 1 \notin copyTimers)
  /\ sinceCopy' = IF sinceCopy < ResetAfter THEN sinceCopy + 1 ELSE sinceCopy
  /\ UNCHANGED <<copying, paletteVars, toastVars, assistantVars>>

copyNext == copy \/ written \/ denied \/ copyElapse

-----------------------------------------------------------------------------
(* Properties                                                                *)

(* Suggestions on the screen are never older than the query they were last   *)
(* looked up for: rows of another query stay only while the current one is   *)
(* under way (CommandPalette.tsx: "Guard against an out-of-order response    *)
(* overwriting newer results"); and Enter always has a row to act on.        *)
NewestWins ==
  /\ suggestions.of # "" /\ suggestions.of # debounced =>
       \E l \in Lookups : lookups[l].of = debounced /\ ~lookups[l].cancelled
  /\ Cardinality({l \in Lookups : lookups[l] # noLookup /\ ~lookups[l].cancelled}) <= 1
  /\ activeIndex < itemsFor(query, suggestions)

(* A notification on the screen always has a timer that will remove it, and  *)
(* the newest ones are shown, in order (Toast.tsx).                          *)
ToastsExpire ==
  /\ ToSet(toasts) \subseteq toastTimers /\ Len(toasts) <= StackLimit
  /\ \A i, j \in DOMAIN toasts : i < j => toasts[i] < toasts[j]

(* The assistant waits no longer than a question is under way, and the       *)
(* answer it shows is that of the last question or of one that was still     *)
(* under way when the last was sent: such a one may come later, and stay.    *)
(* When the last was sent alone, its answer is the only one, and nothing is  *)
(* shown while it is awaited (Assistant.tsx, submit()).                      *)
AssistantCurrent ==
  /\ loading => asking # {}
  /\ result \in {0} \cup together
  /\ together \subseteq {asked} /\ asking # {} => loading /\ result = 0

(* "Copied" is shown for the full time after every copy, and no longer       *)
(* (hooks.ts, useCopyToClipboard()).                                         *)
CopyAcknowledged == copied <=> sinceCopy < ResetAfter
=============================================================================
