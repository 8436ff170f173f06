---------------------------- MODULE Subscriptions ----------------------------
(***************************************************************************)
(* The subscription of one user (chat_subscription and its journal,        *)
(* chat_subscription_event, in store.py).  An administrator sets, extends  *)
(* or cancels it; any read of a member without one provides the default.   *)
(* Every operation looks at the clock first and then waits for the user's  *)
(* lock, under which it reads, writes and journals in one transaction: what*)
(* happens under the lock is one action, taken at an older `now'.          *)
(*                                                                         *)
(* Two ticks make a day and the second is its end: _subscription_end_of_day*)
(* goes to the end of the day that is `days' after the day of its start.   *)
(***************************************************************************)
EXTENDS Integers, Sequences

CONSTANTS
    Requests,       \* calls of the store
    Lengths,        \* days a subscription is set or extended by
    DefaultDays,    \* DEFAULT_SUBSCRIPTION_DAYS
    Given,          \* values of expires_at an administrator may choose
    MaxSpan,        \* longest subscription, in ticks
    LastTick        \* bound on the clock

ASSUME SubscriptionAssumption ==
    /\ Lengths \subseteq Nat \ {0} /\ DefaultDays \in Nat \ {0}
    /\ Given \subseteq Nat /\ MaxSpan \in Nat /\ LastTick \in Nat

VARIABLES
    clock,
    member,         \* role: a member, or still pending
    subscription,   \* the row, <<>> without one, <<row>> with one
    events,         \* what the journal says was done
    doing           \* the call a request is making, and the time it looked at

subscriptionVars == <<clock, member, subscription, events, doing>>

Window == [from : Nat, to : Nat, state : {"active", "cancelled"}]
Actions == {"default_provision", "activate", "update", "reactivate", "extend", "renew", "cancel"}
NoCall == [call |-> "none", at |-> 0, days |-> 0]

SubscriptionTypeOK ==
    /\ clock \in 0 .. LastTick /\ member \in BOOLEAN
    /\ subscription = <<>> \/ (Len(subscription) = 1 /\ subscription[1] \in Window)
    /\ events \in Seq(Actions)
    /\ doing \in [Requests -> [call : {"none", "over", "read", "set", "extend", "cancel"},
                               at : 0 .. LastTick, days : Lengths \cup {0}]]

SubscriptionInit ==
    /\ clock = 0 /\ member \in BOOLEAN
    /\ subscription = <<>> /\ events = <<>>
    /\ doing = [r \in Requests |-> NoCall]

-----------------------------------------------------------------------------
EndOfDay(tick, days) == 2 * ((tick \div 2) + days) + 1

Configured == subscription # <<>>
Stored == subscription[1]

\* Every write is journalled in its own transaction.
Write(row, action, r) ==
    /\ subscription' = <<row>>
    /\ events' = Append(events, action)
    /\ doing' = [doing EXCEPT ![r].call = "over"]
    /\ UNCHANGED <<clock, member>>

Decline(r) ==
    /\ doing' = [doing EXCEPT ![r].call = "over"]
    /\ UNCHANGED <<clock, member, subscription, events>>

Call(r) ==
    /\ doing[r].call = "none"
    /\ \E call \in {"read", "set", "extend", "cancel"}, days \in Lengths :
          doing' = [doing EXCEPT ![r] = [call |-> call, at |-> clock, days |-> days]]
    /\ UNCHANGED <<clock, member, subscription, events>>

\* subscription_for_user(): the default window, once, for a member.
ProvidesDefault == member /\ ~Configured

Read(r) ==
    /\ doing[r].call = "read"
    /\ IF ProvidesDefault
       THEN Write([from |-> doing[r].at, to |-> EndOfDay(doing[r].at, DefaultDays), state |-> "active"],
                  "default_provision", r)
       ELSE Decline(r)

\* Mutant: what has not begun is replaced.
CurrentBegun(now) ==
    Configured /\ Stored.state = "active" /\ Stored.from <= now /\ Stored.to >= now

\* It runs still, or has not begun.
Current(now) == Configured /\ Stored.state = "active" /\ Stored.to >= now

SetNamed(now) == IF ~Configured THEN "activate"
                 ELSE IF Stored.state = "cancelled" \/ Stored.to < now THEN "reactivate" ELSE "update"

\* starts_at may lie before now, and expires_at need not be the end of a day.
Set(r) ==
    /\ doing[r].call = "set"
    /\ \E from \in 0 .. LastTick : \E to \in {EndOfDay(from, doing[r].days)} \cup Given :
          IF to <= from \/ to - from > MaxSpan THEN Decline(r)
          ELSE Write([from |-> from, to |-> to, state |-> "active"], SetNamed(doing[r].at), r)

Extend(r) ==
    /\ doing[r].call = "extend"
    /\ LET now == doing[r].at
           from == IF Current(now) THEN Stored.from ELSE now
           to == EndOfDay(IF Current(now) THEN Stored.to ELSE now, doing[r].days)
       IN  IF to - from > MaxSpan THEN Decline(r)
           ELSE Write([from |-> from, to |-> to, state |-> "active"],
                      IF Current(now) THEN "extend" ELSE "renew", r)

Cancel(r) ==
    /\ doing[r].call = "cancel"
    /\ IF Configured THEN Write([Stored EXCEPT !.state = "cancelled"], "cancel", r)
       ELSE Decline(r)

Tick == /\ clock < LastTick /\ clock' = clock + 1
        /\ UNCHANGED <<member, subscription, events, doing>>

\* An administrator confirms a pending user, or takes it back.
ChangeRole == member' = ~member /\ UNCHANGED <<clock, subscription, events, doing>>

SubscriptionNext ==
    \/ \E r \in Requests : Call(r) \/ Read(r) \/ Set(r) \/ Extend(r) \/ Cancel(r)
    \/ Tick \/ ChangeRole

SubscriptionSpec == SubscriptionInit /\ [][SubscriptionNext]_subscriptionVars

-----------------------------------------------------------------------------
\* The ticks at which a user with this row may chat (_subscription_payload).
Covers(row, tick) == row # <<>> /\ row[1].state = "active" /\ row[1].from <= tick /\ tick <= row[1].to

\* Nobody loses time that was granted: but for a cancellation and a window
\* that an administrator sets anew, a user may chat whenever the row said so
\* before, also when two extensions overlap, when the subscription has not
\* begun, or ran out between the look at the clock and the lock.
AccessKept ==
    [][\A r \in Requests :
          doing'[r].call = "over" /\ doing[r].call \in {"read", "extend"}
            => \A tick \in clock .. LastTick + 8 : Covers(subscription, tick) => Covers(subscription', tick)
      ]_subscriptionVars

\* Reading provides the default only to a user nobody has given anything
\* yet: it never brings a subscription back that ran out or was cancelled.
DefaultComesFirst == \A i \in DOMAIN events : events[i] = "default_provision" => i = 1

\* Reads and changes of one subscription that overlap: no granted time is
\* lost, and the default is provided once (store.py, under the user's lock).
SubscriptionSafety == [](SubscriptionTypeOK /\ DefaultComesFirst) /\ AccessKept
=============================================================================
