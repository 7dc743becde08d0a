-------------------------- MODULE TelegramIdentity --------------------------
(***************************************************************************)
(* How a Telegram chat comes to be somebody: by sending /start, which      *)
(* registers a newcomer, or by opening the link of a pairing an account    *)
(* asked for in the console.  A person is kept three times, as a user, as  *)
(* a legacy row of the chat and as a channel, and reconcile:legacy counts  *)
(* where the three differ.                                                 *)
(*                                                                         *)
(* The bot handles one update at a time but begins again with one it did   *)
(* not finish; pages ask for pairings at the same time, and a pairing      *)
(* expires.  A legacy row is named by its chat, and so is the user that    *)
(* registering the chat creates.                                           *)
(***************************************************************************)
EXTENDS Naturals, FiniteSets

CONSTANTS
    Invited,    \* users an administrator created
    Chats,       \* private chats
    Names,       \* names of divisions
    LegacyNames, \* those register_telegram_identity can map back
    Tickets,     \* pairing tokens, in the order they are made
    Pages,       \* consoles asking for pairings
    Nobody,
    MaxMishaps   \* bound on crashes and on changes of access

ASSUME IdentityAssumption ==
    /\ LegacyNames \subseteq Names /\ Invited \cap Chats = {}
    /\ Tickets \subseteq Nat /\ MaxMishaps \in Nat /\ Nobody \notin Invited \cup Chats \cup Names

VARIABLES
    person,   \* public.users
    legacy,   \* public.telegram_users
    channel,  \* public.user_channels: whose the chat is, and whether preferences were reviewed
    ticket,   \* public.telegram_pairing_tokens
    asking,   \* create_telegram_pairing of each page, not committed yet
    start,    \* the /start the bot has in hand
    told,     \* history: the chats told that they are paired
    mishaps

identityVars == <<person, legacy, channel, ticket, asking, start, told, mishaps>>

Everyone == Invited \cup Chats
Persons == [active: BOOLEAN, name: Names \cup {Nobody}, legacy: Chats \cup {Nobody}]
LegacyRows == [active: BOOLEAN, name: Names \cup {Nobody}]
Channels == [user: Everyone, reviewed: BOOLEAN]
\* `opened` is history: the chats a pairing connected.
TicketRows == [user: Invited, fresh: BOOLEAN, kept: BOOLEAN, opened: SUBSET Chats]
Askings == [user: Invited, deleted: BOOLEAN]
Starts == [chat: Chats, ticket: Tickets \cup {Nobody},
           step: {"handle", "paired", "refused", "registered", "failed"}]

ASSUME NobodyAssumption == Nobody \notin Persons \cup LegacyRows \cup Channels \cup TicketRows

\* There is no row yet.
Absent(f, x) == f[x] = Nobody

Connected(u) == \E c \in Chats: ~Absent(channel, c) /\ channel[c].user = u

IdentityInit ==
    /\ \E f \in [Invited -> Names]:
          person = [u \in Everyone |-> IF u \in Invited
                       THEN [active |-> TRUE, name |-> f[u], legacy |-> Nobody] ELSE Nobody]
    /\ legacy = [c \in Chats |-> Nobody] /\ channel = [c \in Chats |-> Nobody]
    /\ ticket = [t \in Tickets |-> Nobody]
    /\ asking = [p \in Pages |-> Nobody]
    /\ start = Nobody /\ told = {}
    /\ mishaps = 0

-----------------------------------------------------------------------------
(* Asking for a pairing *)

\* create_telegram_pairing checks, deletes the tickets it can see, and inserts its
\* own: two of an account's pages may do so side by side.
createPairing(p, u) ==
    /\ Absent(asking, p)
    /\ person[u].active /\ ~Connected(u)
    /\ asking' = [asking EXCEPT ![p] = [user |-> u, deleted |-> FALSE]]
    /\ UNCHANGED <<person, legacy, channel, ticket, start, told, mishaps>>

DeleteTickets(p) ==
    /\ ~Absent(asking, p) /\ ~asking[p].deleted
    /\ ticket' = [t \in Tickets |->
          IF ~Absent(ticket, t) /\ ticket[t].user = asking[p].user /\ ticket[t].opened = {}
            THEN [ticket[t] EXCEPT !.kept = FALSE] ELSE ticket[t]]
    /\ asking' = [asking EXCEPT ![p].deleted = TRUE]
    /\ UNCHANGED <<person, legacy, channel, start, told, mishaps>>

InsertTicket(p, t) ==
    /\ ~Absent(asking, p) /\ asking[p].deleted
    /\ Absent(ticket, t) /\ \A s \in Tickets: s < t => ~Absent(ticket, s)
    /\ ticket' = [ticket EXCEPT ![t] =
          [user |-> asking[p].user, fresh |-> TRUE, kept |-> TRUE, opened |-> {}]]
    /\ asking' = [asking EXCEPT ![p] = Nobody]
    /\ UNCHANGED <<person, legacy, channel, start, told, mishaps>>

\* Ten minutes pass.
TicketExpires(t) ==
    /\ ~Absent(ticket, t) /\ ticket[t].fresh
    /\ ticket' = [ticket EXCEPT ![t].fresh = FALSE]
    /\ UNCHANGED <<person, legacy, channel, asking, start, told, mishaps>>

-----------------------------------------------------------------------------
(* /start *)

\* Any link may be opened, in any chat, more than once.
Receive(c, t) ==
    /\ start = Nobody
    /\ t \in Tickets => ~Absent(ticket, t)
    /\ start' = [chat |-> c, ticket |-> t, step |-> "handle"]
    /\ UNCHANGED <<person, legacy, channel, ticket, asking, told, mishaps>>

Handling(step) == start # Nobody /\ start.step = step

Then(step) == start' = [start EXCEPT !.step = step]

\* A slip: only the pairing is looked at.
PairableUnseen(t, c) ==
    /\ ticket[t].kept /\ ticket[t].fresh /\ ticket[t].opened = {}
    /\ person[ticket[t].user].active

Pairable(t, c) ==
    /\ ticket[t].kept /\ ticket[t].fresh /\ ticket[t].opened = {}
    /\ person[ticket[t].user].active
    /\ person[ticket[t].user].legacy = Nobody /\ ~Connected(ticket[t].user)
    /\ Absent(channel, c) /\ Absent(legacy, c)

\* consume_telegram_pairing
consumePairing ==
    /\ Handling("handle") /\ start.ticket \in Tickets
    /\ LET t == start.ticket  c == start.chat  u == ticket[t].user
       IN IF Pairable(t, c)
            THEN /\ legacy' = [legacy EXCEPT ![c] = [active |-> TRUE, name |-> person[u].name]]
                 /\ person' = [person EXCEPT ![u].legacy = c]
                 /\ channel' = [channel EXCEPT ![c] = [user |-> u, reviewed |-> FALSE]]
                 /\ ticket' = [ticket EXCEPT ![t].opened = @ \cup {c}]
                 /\ Then("paired")
            ELSE Then("refused") /\ UNCHANGED <<person, legacy, channel, ticket>>
    /\ UNCHANGED <<asking, told, mishaps>>

\* register_telegram_identity gives up on a row it cannot map back.
Mappable(c) == Absent(legacy, c) \/ legacy[c].name \in LegacyNames \cup {Nobody}

Registered(c) == [active |-> FALSE, name |-> Nobody, legacy |-> c]

registerIdentity ==
    /\ Handling("handle") /\ start.ticket = Nobody
    /\ LET c == start.chat
       IN CASE ~Mappable(c) -> Then("failed") /\ UNCHANGED <<person, legacy, channel>>
            [] Mappable(c) /\ Absent(legacy, c) ->
                 /\ legacy' = [legacy EXCEPT ![c] = [active |-> FALSE, name |-> Nobody]]
                 /\ person' = [person EXCEPT ![c] = Registered(c)]
                 /\ channel' = [channel EXCEPT ![c] = [user |-> c, reviewed |-> FALSE]]
                 /\ Then("registered")
            [] OTHER -> Then("registered") /\ UNCHANGED <<person, legacy, channel>>
    /\ UNCHANGED <<ticket, asking, told, mishaps>>

\* The message that says how it went.
Reply ==
    /\ start # Nobody /\ start.step # "handle"
    /\ told' = IF start.step = "paired" THEN told \cup {start.chat} ELSE told
    /\ start' = Nobody
    /\ UNCHANGED <<person, legacy, channel, ticket, asking, mishaps>>

\* The process is killed with an update in hand, and gets it again.
HandledAgain ==
    /\ start # Nobody /\ start.step # "handle" /\ mishaps < MaxMishaps
    /\ mishaps' = mishaps + 1
    /\ Then("handle")
    /\ UNCHANGED <<person, legacy, channel, ticket, asking, told>>

-----------------------------------------------------------------------------
(* The console *)

\* A slip: the legacy row stays behind.
MirroredNot(c, row) == legacy

Mirrored(c, row) == IF c = Nobody THEN legacy ELSE [legacy EXCEPT ![c] = row]

\* update_managed_user_access keeps the legacy row in step.
ChangeAccess(u, active, name) ==
    /\ ~Absent(person, u) /\ mishaps < MaxMishaps
    /\ active => name # Nobody
    /\ mishaps' = mishaps + 1
    /\ person' = [person EXCEPT ![u].active = active, ![u].name = name]
    /\ legacy' = Mirrored(person[u].legacy, [active |-> active, name |-> name])
    /\ UNCHANGED <<channel, ticket, asking, start, told>>

\* update_own_telegram_preferences
updatePreferences(u) ==
    /\ person[u].active /\ person[u].legacy # Nobody
    /\ channel' = [c \in Chats |-> IF ~Absent(channel, c) /\ channel[c].user = u
                                   THEN [channel[c] EXCEPT !.reviewed = TRUE] ELSE channel[c]]
    /\ UNCHANGED <<person, legacy, ticket, asking, start, told, mishaps>>

IdentityNext ==
    \/ \E p \in Pages:
          \/ \E u \in Invited: createPairing(p, u)
          \/ DeleteTickets(p)
          \/ \E t \in Tickets: InsertTicket(p, t)
    \/ \E t \in Tickets: TicketExpires(t)
    \/ \E c \in Chats, t \in Tickets \cup {Nobody}: Receive(c, t)
    \/ consumePairing \/ registerIdentity \/ Reply \/ HandledAgain
    \/ \E u \in Everyone, active \in BOOLEAN, name \in Names \cup {Nobody}: ChangeAccess(u, active, name)
    \/ \E u \in Invited: updatePreferences(u)

IdentitySpec == IdentityInit /\ [][IdentityNext]_identityVars

-----------------------------------------------------------------------------
IdentityTypeOK ==
    /\ person \in [Everyone -> Persons \cup {Nobody}]
    /\ legacy \in [Chats -> LegacyRows \cup {Nobody}]
    /\ channel \in [Chats -> Channels \cup {Nobody}]
    /\ ticket \in [Tickets -> TicketRows \cup {Nobody}]
    /\ asking \in [Pages -> Askings \cup {Nobody}] /\ start \in Starts \cup {Nobody}
    /\ mishaps \in 0..MaxMishaps

\* The three records of a chat exist together and agree.
Reconciled(c) ==
    IF Absent(legacy, c)
      THEN Absent(channel, c) /\ \A u \in Everyone: Absent(person, u) \/ person[u].legacy # c
      ELSE /\ ~Absent(channel, c)
           /\ {u \in Everyone: ~Absent(person, u) /\ person[u].legacy = c} = {channel[c].user}
           /\ legacy[c].active = person[channel[c].user].active
           /\ legacy[c].name = person[channel[c].user].name

\* Whatever registers or pairs, in whatever order, and whatever is repeated: the
\* three records of every chat agree, an account has one chat at most, a pairing
\* connected one chat and its own account at that, and a chat is told it is paired
\* only if it is.
IdentityInv ==
    /\ IdentityTypeOK
    /\ \A c \in Chats: Reconciled(c)
    /\ \A u \in Everyone: Cardinality({c \in Chats: ~Absent(channel, c) /\ channel[c].user = u}) <= 1
    /\ \A t \in Tickets: ~Absent(ticket, t) =>
          /\ Cardinality(ticket[t].opened) <= 1
          /\ \A c \in ticket[t].opened: channel[c].user = ticket[t].user
    /\ \A c \in told: \E t \in Tickets: ~Absent(ticket, t) /\ c \in ticket[t].opened

-----------------------------------------------------------------------------
(* The inductive invariant behind it.                                      *)

\* A chat's channel and the person who has it name each other, and the legacy row is a
\* copy of that person.
Agrees(c) ==
    /\ Absent(legacy, c) <=> Absent(channel, c)
    /\ \A u \in Everyone:
          ~Absent(person, u) /\ person[u].legacy = c <=> ~Absent(channel, c) /\ channel[c].user = u
    /\ ~Absent(legacy, c) => /\ legacy[c].active = person[channel[c].user].active
                             /\ legacy[c].name = person[channel[c].user].name

\* Invited people exist from the beginning; others are registered with their chat.
PeopleKnown ==
    /\ \A u \in Invited: ~Absent(person, u)
    /\ \A c \in Chats: ~Absent(person, c) => person[c].legacy = c

\* A pairing connected one chat, to its own account, for good.
TicketsTrue ==
    \A t \in Tickets: ~Absent(ticket, t) =>
        /\ \A c \in ticket[t].opened: ~Absent(channel, c) /\ channel[c].user = ticket[t].user
        /\ \A c, d \in ticket[t].opened: c = d

Paired(c) == \E t \in Tickets: ~Absent(ticket, t) /\ c \in ticket[t].opened

\* What the bot has in hand, and what it said, is about pairings that took place.
AnswersPaired ==
    /\ start # Nobody =>
          /\ start.ticket \in Tickets => ~Absent(ticket, start.ticket)
          /\ start.step = "paired" => Paired(start.chat)
    /\ \A c \in told: Paired(c)

IdentityIndInv ==
    IdentityTypeOK /\ (\A c \in Chats: Agrees(c)) /\ PeopleKnown /\ TicketsTrue /\ AnswersPaired
=============================================================================
