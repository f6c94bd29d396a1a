------------------------------ MODULE Channels ------------------------------
(***************************************************************************)
(* The channels of the tenants at a social platform (channels/): one       *)
(* document per tenant, and the public webhooks that look a channel up and *)
(* pass the messages of an account on to n8n, one after another.           *)
(*                                                                         *)
(* A webhook reads the channel once and then forwards its messages, each   *)
(* with an await of up to five seconds and one more for the counter, while *)
(* the panel edits or removes the channel. Left out: the platforms, which  *)
(* differ in the shape of their messages only (and Meta's alone come in    *)
(* batches), messages without text, the tokens, and Telegram's setWebhook, *)
(* which writes nothing here.                                              *)
(***************************************************************************)
EXTENDS Requests

CONSTANTS
  Channel,      \* the channels of one platform: one per tenant
  Page,         \* the accounts at the platform that a channel can name
  Batch,        \* messages of one entry                    (bounds inputs)
  Traffic,      \* messages and pings in all                (bounds the history)
  Lives         \* times a channel is created               (bounds the history)

VARIABLES
  channel,      \* None or a ChannelConfig
  lives,        \* times a channel was created: with it, the document's _id
  forward,      \* None or a Forward, by request
  traffic,      \* messages and pings so far
  served,       \* history: n8n's answers and pings for the present document
  stray         \* history: messages that n8n got for a channel that was not
                \* theirs any more, since it last changed while active

channelsVars == <<use, channel, lives, forward, traffic, served, stray>>

\* An account's field is '' (None) until it is given; nothing is forwarded
\* without the URL of n8n.
ChannelConfig == [page : Page \cup {None}, isActive : BOOLEAN, url : BOOLEAN,
                  messagesProcessed : 0..Traffic]

\* What a webhook read of its channel, and the messages it still has.
Forward == [at : {"post", "count"}, to : Channel, life : 1..Lives,
            page : Page \cup {None}, left : 1..Batch]

ASSUME ChannelsAssumption ==
  /\ Batch \in Nat \ {0} /\ Traffic \in Nat /\ Lives \in Nat
  /\ None \notin Page \cup ChannelConfig \cup Forward

ChannelsInit ==
  /\ use \in Uses
  /\ channel = [c \in Channel |-> None]
  /\ lives = [c \in Channel |-> 0]
  /\ forward = Idle
  /\ traffic = 0
  /\ served = [c \in Channel |-> 0] /\ stray = [c \in Channel |-> 0]

-----------------------------------------------------------------------------
(***************************************************************************)
(* Faulty variants, to show that the properties notice a slip.             *)
(***************************************************************************)
FoundInactive(p) == {c \in Channel : channel[c] # None /\ channel[c].page = p}

OfThePair(c, life) == channel[c] # None

-----------------------------------------------------------------------------
(***************************************************************************)
(* The panel.                                                              *)
(***************************************************************************)

\* A new document has the schema's defaults.
Blank == [page |-> None, isActive |-> TRUE, url |-> FALSE, messagesProcessed |-> 0]

Unless(given, old) == IF given = None THEN old ELSE given

\* What a channel was forwarding for starts to stray when it changes.
Changed(c) == IF channel[c] # None /\ channel[c].isActive
                THEN [stray EXCEPT ![c] = 0] ELSE stray

\* findOneAndUpdate sets the fields that are given, and creates the document
\* if there is none.
UpsertChannel(c, page, isActive, url) ==
  LET new == channel[c] = None
      old == IF new THEN Blank ELSE channel[c]
  IN /\ "channel" \in use
     /\ new => lives[c] < Lives
     /\ channel' = [channel EXCEPT ![c] =
          [page |-> Unless(page, old.page), isActive |-> Unless(isActive, old.isActive),
           url |-> Unless(url, old.url), messagesProcessed |-> old.messagesProcessed]]
     /\ lives' = IF new THEN [lives EXCEPT ![c] = @ + 1] ELSE lives
     /\ served' = IF new THEN [served EXCEPT ![c] = 0] ELSE served
     /\ stray' = Changed(c)
     /\ UNCHANGED <<use, forward, traffic>>

RemoveChannel(c) ==
  /\ "channel" \in use
  /\ channel[c] # None
  /\ channel' = [channel EXCEPT ![c] = None]
  /\ stray' = Changed(c)
  /\ UNCHANGED <<use, lives, forward, traffic, served>>

-----------------------------------------------------------------------------
(***************************************************************************)
(* The webhooks.                                                           *)
(***************************************************************************)

\* findByPageId and its like; two tenants may name one account.
FoundByPage(p) ==
  {c \in Channel : channel[c] # None /\ channel[c].page = p /\ channel[c].isActive}

\* An entry of n messages with a text.  Without a URL nothing is forwarded.
HandleEntry(r, p, n) ==
  /\ "hook" \in use
  /\ forward[r] = None
  /\ traffic + n <= Traffic
  /\ \E c \in FoundByPage(p) :
       /\ channel[c].url
       /\ forward' = [forward EXCEPT ![r] =
            [at |-> "post", to |-> c, life |-> lives[c], page |-> p, left |-> n]]
  /\ traffic' = traffic + n
  /\ UNCHANGED <<use, channel, lives, served, stray>>

\* The channel is still the one whose messages are forwarded.
StillFor(f) ==
  /\ lives[f.to] = f.life
  /\ f.to \in FoundByPage(f.page)

\* The next message of the entry, if there is one.
Onward(r) ==
  forward' = IF forward[r].left = 1 THEN [forward EXCEPT ![r] = None]
             ELSE [forward EXCEPT ![r].at = "post", ![r].left = @ - 1]

\* n8n gets the message, and answers in time or not; or it cannot be reached.
ForwardToN8n(r) ==
  LET f == forward[r] IN
  /\ f # None /\ f.at = "post"
  /\ \/ /\ stray' = IF StillFor(f) THEN stray ELSE [stray EXCEPT ![f.to] = @ + 1]
        /\ \/ /\ forward' = [forward EXCEPT ![r].at = "count"]
              /\ served' = IF lives[f.to] = f.life THEN [served EXCEPT ![f.to] = @ + 1]
                           ELSE served
           \/ Onward(r) /\ UNCHANGED served
     \/ Onward(r) /\ UNCHANGED <<served, stray>>
  /\ UNCHANGED <<use, channel, lives, traffic>>

\* The document that incrementMessages finds by its _id.
OfTheId(c, life) == channel[c] # None /\ lives[c] = life

IncrementMessages(r) ==
  LET f == forward[r] IN
  /\ f # None /\ f.at = "count"
  /\ channel' = IF OfTheId(f.to, f.life)
                  THEN [channel EXCEPT ![f.to].messagesProcessed = @ + 1] ELSE channel
  /\ Onward(r)
  /\ UNCHANGED <<use, lives, traffic, served, stray>>

\* internal.controller.ts pingChannel, which counts as a message.
PingChannel(r, c) ==
  /\ "ping" \in use
  /\ forward[r] = None /\ channel[c] # None
  /\ traffic < Traffic
  /\ forward' = [forward EXCEPT ![r] =
       [at |-> "count", to |-> c, life |-> lives[c], page |-> None, left |-> 1]]
  /\ traffic' = traffic + 1
  /\ served' = [served EXCEPT ![c] = @ + 1]
  /\ UNCHANGED <<use, channel, lives, stray>>

\* The error of one message is logged, and the next one follows; a restart ends
\* the webhook.
FailForward(r) ==
  /\ forward[r] # None
  /\ \/ forward' = [forward EXCEPT ![r] = None]
     \/ forward[r].at = "count" /\ Onward(r)
  /\ UNCHANGED <<use, channel, lives, traffic, served, stray>>

ChannelsNext ==
  \/ \E c \in Channel :
       \/ \E page \in Page \cup {None}, isActive, url \in BOOLEAN \cup {None} :
            UpsertChannel(c, page, isActive, url)
       \/ RemoveChannel(c)
       \/ \E r \in Req : PingChannel(r, c)
  \/ \E r \in Req :
       \/ \E p \in Page, n \in 1..Batch : HandleEntry(r, p, n)
       \/ ForwardToN8n(r) \/ IncrementMessages(r) \/ FailForward(r)

ChannelsSpec == ChannelsInit /\ [][ChannelsNext]_channelsVars

-----------------------------------------------------------------------------
(***************************************************************************)
(* Properties.                                                             *)
(***************************************************************************)

\* Every variable has its type.
ChannelsTypeOK ==
  /\ use \in Uses
  /\ channel \in [Channel -> ChannelConfig \cup {None}]
  /\ lives \in [Channel -> 0..Lives]
  /\ forward \in [Req -> Forward \cup {None}]
  /\ traffic \in 0..Traffic
  /\ served \in [Channel -> 0..Traffic] /\ stray \in [Channel -> 0..Traffic]

\* A channel that is switched off, removed or given to another account goes
\* quiet: n8n gets no more of the old messages than the webhooks that were on
\* their way still had, as each of them read the channel once.
OffIsQuiet == \A c \in Channel : stray[c] <= Cardinality(Req) * Batch

\* The counter of a channel has only messages that n8n answered, and pings, for
\* the document it is in: a channel that is removed and made again starts from
\* nothing, even with webhooks of the old one on their way.
CountIsOwn ==
  \A c \in Channel : channel[c] # None => channel[c].messagesProcessed <= served[c]
=============================================================================
