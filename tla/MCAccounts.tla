------------------------------ MODULE MCAccounts ------------------------------
(***************************************************************************)
(* What signed-in users do to the API, for TLC: sessions, rate limits,     *)
(* reviews, moderation and the user's library.  They share no state; the   *)
(* subject, chosen in the initial state, is the one that moves.            *)
(***************************************************************************)
EXTENDS Sessions, RateLimiting, Reviews, Moderation, Library, TLC

CONSTANTS h1, h2, b1   \* two handles: of tabs, instances, requests or clicks; a browser

VARIABLE subject

(* Every component treats its handles alike.                                 *)
Symmetry == Permutations({h1, h2})

(* One mailbox in two spellings, and another.                                *)
Typed ==
  {[box |-> "m1", shouted |-> FALSE], [box |-> "m1", shouted |-> TRUE],
   [box |-> "m2", shouted |-> FALSE]}

(* Where a component has several initial states, only its own run needs them.*)
(* Clocks are compared in the shared bucket alone.                           *)
AccountsInit ==
  /\ subject \in {"sessions", "limits", "reviews", "moderation", "library"}
  /\ SessionsInit /\ browser[h1] = b1 /\ (subject # "sessions" => browser[h2] = b1)
  /\ RateLimitInit /\ (subject # "limits" => distributed /\ watched = InRedis)
  /\ (subject # "limits" \/ ~distributed \/ watched # InRedis => \A i \in Instances : behind[i] = 0)
  /\ ReviewsInit
  /\ ModerationInit /\ (subject # "moderation" => status = "active")
  /\ LibraryInit /\ (subject # "library" => favorite)

RestStays ==
  /\ IF subject = "sessions" THEN TRUE ELSE UNCHANGED sessionVars
  /\ IF subject = "limits" THEN TRUE ELSE UNCHANGED limitVars
  /\ IF subject = "reviews" THEN TRUE ELSE UNCHANGED reviewVars
  /\ IF subject = "moderation" THEN TRUE ELSE UNCHANGED moderationVars
  /\ IF subject = "library" THEN TRUE ELSE UNCHANGED libraryVars
  /\ UNCHANGED subject

AccountsNext ==
  /\ \/ subject = "sessions" /\ SessionsNext
     \/ subject = "limits" /\ RateLimitNext
     \/ subject = "reviews" /\ ReviewsNext
     \/ subject = "moderation" /\ ModerationNext
     \/ subject = "library" /\ LibraryNext
  /\ RestStays

AccountsSpec ==
  AccountsInit /\ [][AccountsNext]_<<sessionVars, limitVars, reviewVars, moderationVars,
                                     libraryVars, subject>>

-----------------------------------------------------------------------------
(* Properties of the subjects, each where it moves                           *)

(* Signing in and out leaves the tables sound: they have their types, a      *)
(* session that was revoked stays so whatever was under way, and an address  *)
(* has one account however it is spelled (auth/service.ts).                  *)
AccountsSound ==
  subject = "sessions" => SessionsTypeOK /\ RevokedStaysRevoked /\ OneAccountPerAddress

(* The limits hold over every stretch of time, and clients are told the      *)
(* truth about when to come back (token-bucket.ts, rate-limiter.ts).         *)
LimitsHold == subject = "limits" => RateLimitTypeOK /\ LimitHolds /\ RetryAfterHonest

(* One review per user, one vote per user counted once, and a summary that   *)
(* counts the reviews there are (reviews/service.ts).                        *)
ReviewsSound == subject = "reviews" => ReviewsTypeOK /\ VotesCounted /\ SummaryTrue

(* Privileged actions and their audit log agree (admin/service.ts).          *)
ModerationSound == subject = "moderation" => ModerationTypeOK /\ AuditTells

(* The page shows what the server keeps, and collections know how many items *)
(* they have (FavoriteButton.tsx, CollectionsManager.tsx,                    *)
(* collection-service.ts).                                                   *)
LibrarySound == subject = "library" => LibraryTypeOK /\ PageShowsTruth /\ CountMatches
=============================================================================
