------------------------ MODULE CommandChannelsProofs ------------------------
(***************************************************************************)
(* Proofs about CommandChannels, for any number of commands and any windows  *)
(* of the channels, and about MCDevices: in its run CommandChannels behaves   *)
(* as specified, and what is proved of theft mode and of the evidence chain   *)
(* holds of the parts that are instances of them.                             *)
(***************************************************************************)
EXTENDS MCDevices, TLAPS, FiniteSetTheorems

-----------------------------------------------------------------------------
(* Type correctness *)

Row == [status: {"none", "pending", "executed", "failed", "expired"},
        channel: {"poll", "sms"}, by: {"owner", "ussd", "whatsapp"},
        kind: Kinds, window: {0, Lock, Long, SmsWindow}]

\* The window of a kind is one of the two poll windows.
LEMMA Windows ==
    \A kind \in Kinds : PollWindow(kind) \in {Lock, Long} /\ Lock <= PollWindow(kind)
    BY ChannelConstants DEF PollWindow, Kinds

\* A new row, a re-stamped row and a row with another status are rows.
LEMMA Rows ==
    /\ \A channel \in {"poll", "sms"}, by \in {"owner", "ussd", "whatsapp"}, kind \in Kinds,
          window \in {0, Lock, Long, SmsWindow} :
        [status |-> "pending", channel |-> channel, by |-> by, kind |-> kind,
         window |-> window] \in Row
    /\ \A r \in Row : Restamped(r) \in Row
    /\ \A r \in Row, s \in {"executed", "failed", "expired"} : [r EXCEPT !.status = s] \in Row
    /\ Absent \in Row
    BY Windows DEF Row, Restamped, Absent, Kinds

\* An SMS leaves the gateways in at most two copies.
LEMMA Copies ==
    ASSUME NEW tried \in {{1}, {1, 2}}, NEW S \in SUBSET tried
    PROVE  Cardinality(S) \in 0..2
<1>1. IsFiniteSet({1}) /\ Cardinality({1}) = 1
    BY FS_Singleton
<1>2. IsFiniteSet({1} \cup {2}) /\ Cardinality({1} \cup {2}) = 2
  <2>1. 2 \notin {1}
    OBVIOUS
  <2>2. Cardinality({1} \cup {2}) = Cardinality({1}) + 1 /\ IsFiniteSet({1} \cup {2})
    BY <1>1, <2>1, FS_AddElement, Zenon
  <2>3. QED
    BY <1>1, <2>2
<1>3. S \in SUBSET ({1} \cup {2})
    OBVIOUS
<1>4. IsFiniteSet(S) /\ Cardinality(S) <= Cardinality({1} \cup {2})
    BY <1>2, <1>3, FS_Subset, Zenon
<1>5. Cardinality(S) \in Nat
    BY <1>4, FS_CardinalityType, Zenon
<1>6. QED
    BY <1>2, <1>4, <1>5

\* An update of the tracker makes records of records.
LEMMA PutRecords ==
    \A e \in Edit : /\ Put(e) \in Records
                    /\ \A c \in Cmd : Put(e)[c] = IF c = e.cmd THEN e.outcome ELSE e.read[c]
    BY DEF Edit, Put, Records, Outcome

\* What the poll, the receiver and the messaging service hold stays in its type.
LEMMA TypeStep == TypeOK /\ [Next]_vars => TypeOK'
<1> SUFFICES ASSUME TypeOK, [Next]_vars PROVE TypeOK'
    OBVIOUS
<1> USE DEF phoneVars
<1>0. /\ row \in [Cmd -> Row]
      /\ (row' \in [Cmd -> Row]) =
            (row' \in [Cmd -> [status: {"none", "pending", "executed", "failed", "expired"},
                        channel: {"poll", "sms"}, by: {"owner", "ussd", "whatsapp"},
                        kind: Kinds, window: {0, Lock, Long, SmsWindow}]])
    BY DEF TypeOK, Row
<1>a. ASSUME NEW c \in Cmd, NEW channel \in {"poll", "sms"}, NEW by \in {"owner", "ussd", "whatsapp"},
             NEW kind \in Kinds, NEW window \in {0, Lock, Long, SmsWindow},
             Insert(c, channel, by, kind, window)
      PROVE  row' \in [Cmd -> Row]
    BY <1>0, <1>a, Rows DEF Insert
<1>1. ASSUME NEW c \in Cmd, NEW kind \in Kinds, NEW offline \in BOOLEAN, Issue(c, kind, offline)
      PROVE  TypeOK'
  <2>1. row' \in [Cmd -> Row]
    BY <1>1, <1>a, Windows DEF Issue
  <2>2. QED
    BY <1>0, <1>1, <2>1 DEF TypeOK, Issue
<1>2. ASSUME NEW c \in Cmd, SendSms(c) PROVE TypeOK'
  <2>1. PICK answers \in Answers \X Answers :
          LET tried == IF answers[1] = "taken" THEN {1} ELSE {1, 2}
              copies == Cardinality({i \in tried : answers[i] # "refused"})
          IN  /\ sms' = [sms EXCEPT ![c] = copies]
              /\ handler' = [handler EXCEPT ![c] = IF SmsFailed(answers) THEN "restamp" ELSE "push"]
              /\ accepted' = IF \E i \in tried : answers[i] = "taken"
                             THEN accepted \cup {c} ELSE accepted
    BY <1>2 DEF SendSms
  <2>2. sms' \in [Cmd -> 0..2]
    <3> DEFINE tried == IF answers[1] = "taken" THEN {1} ELSE {1, 2}
               kept == {i \in tried : answers[i] # "refused"}
    <3>1. Cardinality(kept) \in 0..2
      BY Copies
    <3>2. sms' = [sms EXCEPT ![c] = Cardinality(kept)]
      BY <2>1
    <3> HIDE DEF kept
    <3>3. QED
      BY <3>1, <3>2 DEF TypeOK
  <2>3. handler' \in [Cmd -> {"none", "send", "restamp", "push", "done", "dead"}]
        /\ accepted' \subseteq Cmd
    BY <2>1 DEF TypeOK
  <2>4. UNCHANGED <<setup, row, age, ussd, push, replies, phoneVars>>
    BY <1>2 DEF SendSms
  <2>5. QED
    BY <2>2, <2>3, <2>4 DEF TypeOK
<1>3. ASSUME NEW c \in Cmd, Restamp(c) PROVE TypeOK'
  <2>1. row' \in [Cmd -> Row]
    BY <1>0, <1>3, Rows DEF Restamp
  <2>2. QED
    BY <1>0, <1>3, <2>1 DEF TypeOK, Restamp
<1>4. ASSUME NEW c \in Cmd, SendPush(c) PROVE TypeOK'
    BY <1>4 DEF TypeOK, SendPush
<1>5. ASSUME NEW c \in Cmd, Die(c) PROVE TypeOK'
    BY <1>5 DEF TypeOK, Die
<1>6. CASE ReadHistory
  <2>1. row' \in [Cmd -> Row]
    BY <1>0, <1>6, Rows DEF ReadHistory
  <2>2. QED
    BY <1>0, <1>6, <2>1 DEF TypeOK, ReadHistory
<1>7. ASSUME NEW state \in {"lock_phone", "trigger_siren"}, UssdMenu(state) PROVE TypeOK'
    BY <1>7 DEF TypeOK, UssdMenu
<1>8. CASE UssdUnknown
    BY <1>8 DEF TypeOK, UssdUnknown
<1>9. ASSUME NEW c \in Cmd, UssdIssue(c) PROVE TypeOK'
  <2>1. row' \in [Cmd -> Row]
    BY <1>9, <1>a DEF UssdIssue, Kinds
  <2>2. QED
    BY <1>0, <1>9, <2>1 DEF TypeOK, UssdIssue
<1>10. ASSUME NEW c \in Cmd, NEW kind \in Kinds, WhatsAppIssue(c, kind) PROVE TypeOK'
  <2>1. row' \in [Cmd -> Row]
    BY <1>10, <1>a DEF WhatsAppIssue
  <2>2. QED
    BY <1>0, <1>10, <2>1 DEF TypeOK, WhatsAppIssue
<1>11. CASE Poll
    BY <1>11 DEF TypeOK, Poll
<1>12. ASSUME NEW c \in Cmd, ReAck(c) PROVE TypeOK'
  <2>1. tracker[c] \in Outcome
    BY <1>12 DEF TypeOK, ReAck, Records
  <2>2. edits' \subseteq Edit
    BY <1>12, <2>1 DEF TypeOK, ReAck, Note, Edit
  <2>3. QED
    BY <1>12, <2>2 DEF TypeOK, ReAck
<1>13. ASSUME NEW c \in Cmd, RunPolled(c) PROVE TypeOK'
  <2>1. started' \in [Cmd -> SUBSET Via]
    BY <1>13 DEF TypeOK, RunPolled, Start, Via
  <2>2. QED
    BY <1>13, <2>1 DEF TypeOK, RunPolled
<1>14. ASSUME NEW c \in Cmd, ReceiveSms(c) PROVE TypeOK'
  <2>1. sms' \in [Cmd -> 0..2]
    BY <1>14 DEF TypeOK, ReceiveSms
  <2>2. /\ started' = started \/ started' = [started EXCEPT ![c] = @ \cup {"sms"}]
        /\ running' \subseteq running \cup {[cmd |-> c, via |-> "sms"]}
    BY <1>14 DEF ReceiveSms, Start
  <2>3. started' \in [Cmd -> SUBSET Via]
    BY <2>2 DEF TypeOK, Via
  <2>4. running' \subseteq [cmd: Cmd, via: {"poll", "sms"}]
    BY <2>2 DEF TypeOK
  <2>5. QED
    BY <1>14, <2>1, <2>3, <2>4 DEF TypeOK, ReceiveSms
<1>15. ASSUME NEW c \in Cmd, ReceivePush(c) PROVE TypeOK'
  <2>1. push' \in [Cmd -> 0..1]
    BY <1>15 DEF TypeOK, ReceivePush
  <2>2. started' \in [Cmd -> SUBSET Via] /\ carried' \subseteq Cmd
    BY <1>15 DEF TypeOK, ReceivePush, Start, Via
  <2>3. QED
    BY <1>15, <2>1, <2>2 DEF TypeOK, ReceivePush, PushAck
<1>16. ASSUME NEW r \in running, Finish(r) PROVE TypeOK'
  <2>1. PICK outcome \in Outcomes(row[r.cmd].kind) :
            /\ Note(r.cmd, r.via, outcome)
            /\ carried' = IF outcome = "executed" THEN carried \cup {r.cmd} ELSE carried
    BY <1>16 DEF Finish
  <2>2. r.cmd \in Cmd /\ r.via \in {"poll", "sms"} /\ row[r.cmd].kind \in Kinds
    BY DEF TypeOK
  <2>3. outcome \in Outcome
    BY <2>2 DEF Outcomes, Kinds, Outcome
  <2>4. edits' \subseteq Edit /\ carried' \subseteq Cmd
    BY <2>1, <2>2, <2>3 DEF Note, Edit, TypeOK
  <2>5. QED
    BY <1>16, <2>4 DEF TypeOK, Finish
<1>w. ASSUME NEW e \in edits, WriteBack(e) PROVE TypeOK'
  <2>1. e.cmd \in Cmd /\ e.outcome \in Outcome /\ row[e.cmd].kind \in Kinds
    BY DEF TypeOK, Edit
  <2>2. tracker' \in Records
    BY <1>w, PutRecords DEF WriteBack, TypeOK
  <2>3. dropped' \subseteq Cmd /\ finished' \subseteq Cmd /\ acks' \subseteq [cmd: Cmd, status: Outcome]
    BY <1>w, <2>1 DEF WriteBack, Unseen, TypeOK
  <2>4. replies' \subseteq [cmd: Cmd, word: Kinds \cup {"executed", "failed"}]
    BY <1>w, <2>1 DEF WriteBack, Reply, TypeOK
  <2>5. QED
    BY <1>w, <2>2, <2>3, <2>4 DEF TypeOK, WriteBack
<1>17. ASSUME NEW a \in acks, Ack(a) PROVE TypeOK'
  <2>1. a.cmd \in Cmd /\ a.status \in {"executed", "failed"}
    BY DEF TypeOK, Outcome
  <2>2. row' \in [Cmd -> Row]
    BY <1>0, <1>17, <2>1, Rows DEF Ack
  <2>3. QED
    BY <1>0, <1>17, <2>2 DEF TypeOK, Ack
<1>18. ASSUME NEW m \in replies, SmsInbound(m) PROVE TypeOK'
  <2>1. m.cmd \in Cmd
    BY DEF TypeOK
  <2>2. ParseAck(m.word) # None => ParseAck(m.word) \in {"executed", "failed"}
    BY DEF ParseAck
  <2>3. row' \in [Cmd -> Row]
    BY <1>0, <1>18, <2>1, <2>2, Rows DEF SmsInbound
  <2>4. QED
    BY <1>0, <1>18, <2>3 DEF TypeOK, SmsInbound
<1>19. CASE Tick
    BY <1>19, ChannelConstants DEF TypeOK, Tick
<1>20. CASE UNCHANGED vars
    BY <1>20 DEF TypeOK, vars
<1>21. QED
    BY <1>1, <1>2, <1>3, <1>4, <1>5, <1>6, <1>7, <1>8, <1>9, <1>10, <1>11, <1>12, <1>13, <1>14,
       <1>15, <1>16, <1>w, <1>17, <1>18, <1>19, <1>20 DEF Next

-----------------------------------------------------------------------------
(* Where a command may be *)

\* Everything said of one command's channel.
Routed(c) ==
    /\ Unissued(c) /\ OffThePoll(c) /\ Relayed(c)
    /\ row[c].channel = "poll" => row[c].window <= PollWindow(row[c].kind)
    /\ row[c].status = "pending" /\ row[c].channel = "sms" /\ row[c].by = "owner" =>
            c \in accepted \/ handler[c] \in {"send", "restamp", "dead"}
    /\ c \in accepted => "poll" \notin started[c]

\* A row enters the SMS channel when it is issued; only a command that no
\* provider took is re-stamped for the poll, with the poll's window.
LEMMA RoutedStep ==
    ASSUME TypeOK, [Next]_vars, NEW c \in Cmd, Routed(c)
    PROVE  Routed(c)'
<1> USE DEF Routed, Unissued, OffThePoll, Relayed
<1> USE DEF phoneVars
<1>0. /\ row[c] \in Row /\ row \in [Cmd -> Row]
      /\ \A kind \in Kinds : PollWindow(kind) \in Nat /\ Lock <= PollWindow(kind)
    BY Windows, ChannelConstants DEF TypeOK, Row
<1>1. ASSUME NEW d \in Cmd, NEW kind \in Kinds, NEW offline \in BOOLEAN, Issue(d, kind, offline)
      PROVE  Routed(c)'
    BY <1>0, <1>1 DEF Issue, Insert, TypeOK, PollWindow
<1>2. ASSUME NEW d \in Cmd, SendSms(d) PROVE Routed(c)'
  <2>1. PICK answers \in Answers \X Answers :
          LET tried == IF answers[1] = "taken" THEN {1} ELSE {1, 2}
          IN  /\ handler' = [handler EXCEPT ![d] = IF SmsFailed(answers) THEN "restamp" ELSE "push"]
              /\ accepted' = IF \E i \in tried : answers[i] = "taken"
                             THEN accepted \cup {d} ELSE accepted
    BY <1>2 DEF SendSms
  <2>2. \/ /\ handler'[d] = "restamp" /\ accepted' = accepted
        \/ /\ handler'[d] = "push" /\ accepted' = accepted \cup {d}
    BY <2>1 DEF SmsFailed, TypeOK
  <2>3. /\ handler[d] = "send" /\ UNCHANGED <<row, todo, started>>
        /\ \A e \in Cmd : e # d => handler'[e] = handler[e]
    BY <1>2, <2>1 DEF SendSms, TypeOK
  <2>4. CASE c = d
    BY <2>2, <2>3, <2>4
  <2>5. CASE c # d
    BY <2>2, <2>3, <2>5
  <2>6. QED
    BY <2>4, <2>5
<1>3. ASSUME NEW d \in Cmd, Restamp(d) PROVE Routed(c)'
  <2>1. row'[d].channel = "poll" /\ row'[d].window = PollWindow(row'[d].kind)
        /\ row'[d].status = row[d].status
    BY <1>0, <1>3 DEF Restamp, Restamped, Row
  <2>2. /\ handler[d] = "restamp" /\ handler'[d] = "push" /\ UNCHANGED <<accepted, todo, started>>
        /\ \A e \in Cmd : e # d => handler'[e] = handler[e] /\ row'[e] = row[e]
    BY <1>3 DEF Restamp, TypeOK
  <2>3. CASE c = d
    <3>1. row'[d].kind \in Kinds
      BY <1>0, <1>3 DEF Restamp, Restamped, Row
    <3>2. row'[d].window <= PollWindow(row'[d].kind)
      BY <1>0, <2>1, <3>1
    <3>3. QED
      BY <2>1, <2>2, <2>3, <3>2
  <2>4. CASE c # d
    BY <2>2, <2>4
  <2>5. QED
    BY <2>3, <2>4
<1>4. ASSUME NEW d \in Cmd, SendPush(d) \/ Die(d) PROVE Routed(c)'
    BY <1>4 DEF SendPush, Die, TypeOK
<1>5. CASE ReadHistory
    BY <1>0, <1>5 DEF ReadHistory, Row
<1>6. ASSUME NEW d \in Cmd, UssdIssue(d) PROVE Routed(c)'
    BY <1>0, <1>6 DEF UssdIssue, Insert
<1>7. ASSUME NEW d \in Cmd, NEW kind \in Kinds, WhatsAppIssue(d, kind) PROVE Routed(c)'
    BY <1>0, <1>7 DEF WhatsAppIssue, Insert
<1>8. CASE Poll
    BY <1>8 DEF Poll, Deliverable
<1>9. ASSUME NEW d \in Cmd, ReAck(d) PROVE Routed(c)'
    BY <1>9 DEF ReAck
<1>10. ASSUME NEW d \in Cmd, RunPolled(d) PROVE Routed(c)'
    BY <1>10 DEF RunPolled, Start, TypeOK
<1>11. ASSUME NEW d \in Cmd, ReceiveSms(d) \/ ReceivePush(d) PROVE Routed(c)'
  <2>1. /\ UNCHANGED <<row, handler, todo, accepted>>
        /\ \/ started' = started
           \/ \E via \in {"sms", "push"} : started' = [started EXCEPT ![d] = @ \cup {via}]
    BY <1>11 DEF ReceiveSms, ReceivePush, Start
  <2>2. "poll" \in started'[c] => "poll" \in started[c]
    BY <2>1 DEF TypeOK
  <2>3. QED
    BY <2>1, <2>2
<1>12. ASSUME NEW a \in acks, Ack(a) PROVE Routed(c)'
  <2>1. a.cmd \in Cmd /\ a.status \in {"executed", "failed"}
    BY DEF TypeOK, Outcome
  <2>2. /\ UNCHANGED <<handler, todo, accepted, started>>
        /\ row' = [row EXCEPT ![a.cmd].status = a.status]
    BY <1>12 DEF Ack
  <2>3. \/ row'[c] = row[c]
        \/ /\ row'[c].status = a.status /\ row'[c].channel = row[c].channel
           /\ row'[c].window = row[c].window /\ row'[c].kind = row[c].kind
    BY <1>0, <2>1, <2>2 DEF Row
  <2>4. QED
    BY <2>1, <2>2, <2>3
<1>13. ASSUME NEW m \in replies, SmsInbound(m) PROVE Routed(c)'
  <2>1. m.cmd \in Cmd /\ (ParseAck(m.word) # None => ParseAck(m.word) \in {"executed", "failed"})
    BY DEF TypeOK, ParseAck
  <2>2. /\ UNCHANGED <<handler, todo, accepted, started>>
        /\ \/ row' = row
           \/ \E s \in {"executed", "failed"} : row' = [row EXCEPT ![m.cmd].status = s]
    BY <1>13, <2>1 DEF SmsInbound
  <2>3. \/ row'[c] = row[c]
        \/ /\ row'[c].status \in {"executed", "failed"} /\ row'[c].channel = row[c].channel
           /\ row'[c].window = row[c].window /\ row'[c].kind = row[c].kind
    BY <1>0, <2>1, <2>2 DEF Row
  <2>4. QED
    BY <2>2, <2>3
<1>14. CASE UNCHANGED <<row, handler, todo, started, accepted>>
    BY <1>14
<1>15. QED
    BY <1>1, <1>2, <1>3, <1>4, <1>5, <1>6, <1>7, <1>8, <1>9, <1>10, <1>11, <1>12, <1>13, <1>14
    DEF Next, vars, UssdMenu, UssdUnknown, Finish, WriteBack, Tick

-----------------------------------------------------------------------------
(* What is reported of a command *)

\* What the tracker, the acknowledgements and the row say of one command.
Honest(c) == Reported(c) /\ (row[c].status = "executed" => c \in carried)

\* The only acknowledgement of success follows a run that had its effect, and an
\* SMS reply is not one: the server cannot parse it.
LEMMA HonestStep ==
    ASSUME TypeOK, \A m \in replies : m.word \in Kinds, [Next]_vars,
           NEW c \in Cmd, Honest(c), \A d \in Cmd : Reported(d)
    PROVE  Honest(c)'
<1> USE DEF Honest, Reported
<1> USE DEF phoneVars
<1>0. row[c] \in Row /\ row \in [Cmd -> Row] /\ carried \subseteq Cmd /\ edits \subseteq Edit
    BY DEF TypeOK, Row
<1>1. ASSUME NEW d \in Cmd, NEW kind \in Kinds, NEW offline \in BOOLEAN,
             Issue(d, kind, offline) \/ UssdIssue(d) \/ WhatsAppIssue(d, kind)
      PROVE  Honest(c)'
  <2>1. UNCHANGED <<tracker, edits, acks, carried, finished, dropped>>
    BY <1>1 DEF Issue, UssdIssue, WhatsAppIssue
  <2>2. row'[c] = row[c] \/ row'[c].status = "pending"
    BY <1>0, <1>1 DEF Issue, UssdIssue, WhatsAppIssue, Insert
  <2>3. QED
    BY <2>1, <2>2
<1>2. ASSUME NEW d \in Cmd, Restamp(d) PROVE Honest(c)'
  <2>1. row'[c].status = row[c].status
    BY <1>0, <1>2 DEF Restamp, Restamped, Row
  <2>2. QED
    BY <1>2, <2>1 DEF Restamp
<1>3. CASE ReadHistory
    BY <1>0, <1>3 DEF ReadHistory, Row
<1>n. ASSUME NEW d \in Cmd, NEW via \in {"poll", "sms"}, NEW outcome \in Outcome,
             Note(d, via, outcome), UNCHANGED <<tracker, acks, row, finished, dropped>>,
             carried \subseteq carried', outcome = "executed" => d \in carried'
      PROVE  Honest(c)'
  <2> DEFINE new == [cmd |-> d, via |-> via, outcome |-> outcome, read |-> tracker]
  <2>1. new \in Edit /\ edits' = edits \cup {new}
    BY <1>n DEF Note, Edit, TypeOK
  <2>2. Put(new)[c] = "executed" => c \in carried'
    BY <1>n, <2>1, PutRecords
  <2> HIDE DEF new
  <2>3. \A e \in edits' : Put(e)' = Put(e)
    BY DEF Put
  <2>4. QED
    BY <1>n, <2>1, <2>2, <2>3
<1>4. ASSUME NEW d \in Cmd, ReAck(d) PROVE Honest(c)'
  <2>1. tracker[d] \in Outcome
    BY <1>4 DEF TypeOK, ReAck, Records
  <2>2. tracker[d] = "executed" => d \in carried
    BY <1>4
  <2>3. QED
    BY <1>4, <1>n, <2>1, <2>2 DEF ReAck
<1>5. ASSUME NEW d \in Cmd, ReceivePush(d) PROVE Honest(c)'
    BY <1>5 DEF ReceivePush, PushAck
<1>6. ASSUME NEW r \in running, Finish(r) PROVE Honest(c)'
  <2>1. PICK outcome \in Outcomes(row[r.cmd].kind) :
            /\ Note(r.cmd, r.via, outcome)
            /\ carried' = IF outcome = "executed" THEN carried \cup {r.cmd} ELSE carried
    BY <1>6 DEF Finish
  <2>2. r.cmd \in Cmd /\ r.via \in {"poll", "sms"} /\ row[r.cmd].kind \in Kinds
    BY DEF TypeOK
  <2>3. outcome \in Outcome
    BY <2>2 DEF Outcomes, Kinds, Outcome
  <2>4. UNCHANGED <<tracker, acks, row, finished, dropped>>
    BY <1>6 DEF Finish
  <2>5. carried \subseteq carried' /\ (outcome = "executed" => r.cmd \in carried')
    BY <2>1
  <2>6. QED
    BY <1>n, <2>1, <2>2, <2>3, <2>4, <2>5
<1>w. ASSUME NEW e \in edits, WriteBack(e) PROVE Honest(c)'
  <2>1. /\ e \in Edit /\ e.cmd \in Cmd /\ e.outcome \in Outcome
        /\ Put(e)[c] = IF c = e.cmd THEN e.outcome ELSE e.read[c]
    BY PutRecords DEF TypeOK, Edit
  <2>2. /\ tracker' = Put(e) /\ edits' \subseteq edits /\ UNCHANGED <<row, carried>>
        /\ acks' = acks \cup {[cmd |-> e.cmd, status |-> e.outcome]}
        /\ finished' = finished \cup {e.cmd} /\ dropped' = dropped \cup Unseen(e)
    BY <1>w DEF WriteBack
  <2>3. Put(e)[c] = "executed" => c \in carried
    OBVIOUS
  <2>4. \A f \in edits' : Put(f)' = Put(f)
    BY DEF Put
  <2>5. [cmd |-> c, status |-> "executed"] \in acks' => c \in carried
    BY <2>1, <2>2, <2>3
  <2>6. c \in finished' \ dropped' => tracker'[c] # "none"
    <3>1. CASE c = e.cmd
      BY <2>1, <2>2, <3>1 DEF Outcome
    <3>2. CASE c # e.cmd
      BY <2>1, <2>2, <3>2 DEF Unseen
    <3>3. QED
      BY <3>1, <3>2
  <2>7. QED
    BY <2>2, <2>3, <2>4, <2>5, <2>6
<1>7. ASSUME NEW a \in acks, Ack(a) PROVE Honest(c)'
  <2>1. a.cmd \in Cmd /\ a = [cmd |-> a.cmd, status |-> a.status]
    BY DEF TypeOK
  <2>2. row'[c].status = row[c].status \/ (c = a.cmd /\ row'[c].status = a.status)
    BY <1>0, <1>7, <2>1 DEF Ack, Row
  <2>3. UNCHANGED <<tracker, edits, carried, finished, dropped>> /\ acks' \subseteq acks
    BY <1>7 DEF Ack
  <2>4. row'[c].status = "executed" => c \in carried
    BY <2>1, <2>2
  <2>5. QED
    BY <2>3, <2>4
<1>8. ASSUME NEW m \in replies, SmsInbound(m) PROVE Honest(c)'
  <2>1. ParseAck(m.word) = None
    BY DEF ParseAck, Kinds
  <2>2. QED
    BY <1>8, <2>1 DEF SmsInbound
<1>9. CASE UNCHANGED <<row, tracker, edits, acks, carried, finished, dropped>>
    BY <1>9
<1>a. "lock" \in Kinds
    BY DEF Kinds
<1>10. QED
    BY <1>a, <1>1, <1>2, <1>3, <1>4, <1>5, <1>6, <1>w, <1>7, <1>8,
       <1>9
    DEF Next, vars, SendSms, SendPush, Die, UssdMenu, UssdUnknown, Poll, RunPolled, ReceiveSms, Tick

\* An SMS reply names the command and not its outcome.
LEMMA RepliesStep ==
    ASSUME TypeOK, \A m \in replies : m.word \in Kinds, [Next]_vars
    PROVE  \A m \in replies' : m.word \in Kinds
<1>1. ASSUME NEW e \in edits, WriteBack(e) PROVE \A m \in replies' : m.word \in Kinds
  <2>1. replies' \subseteq replies \cup {Reply(e.cmd)}
    BY <1>1 DEF WriteBack
  <2>2. Reply(e.cmd).word \in Kinds
    BY DEF Reply, TypeOK, Edit
  <2>3. QED
    BY <2>1, <2>2
<1>2. ASSUME NEW m \in replies, SmsInbound(m) PROVE \A n \in replies' : n.word \in Kinds
    BY <1>2 DEF SmsInbound
<1>3. CASE UNCHANGED replies
    BY <1>3
<1>4. QED
    BY <1>1, <1>2, <1>3 DEF Next, vars, Issue, SendSms, Restamp, SendPush, Die, ReadHistory,
       UssdMenu, UssdUnknown, UssdIssue, WhatsAppIssue, Poll, ReAck, RunPolled, ReceiveSms,
       Finish, ReceivePush, Ack, Tick

-----------------------------------------------------------------------------
(* The theorems *)

\* The invariant on which the others rest is inductive.
THEOREM ChannelInvHolds == Spec => []ChannelInv
<1>1. Init => ChannelInv
  <2> SUFFICES ASSUME Init PROVE ChannelInv
    OBVIOUS
  <2>1. TypeOK
    <3>1. row \in [Cmd -> Row] /\ SmsWindow \in Nat
      BY Rows, ChannelConstants DEF Init
    <3>2. /\ sms \in [Cmd -> 0..2] /\ push \in [Cmd -> 0..1] /\ age \in [Cmd -> 0..SmsWindow]
          /\ started \in [Cmd -> SUBSET Via]
      BY <3>1 DEF Init
    <3>3. QED
      BY <3>1, <3>2 DEF Init, TypeOK, Row, Records
  <2>2. \A kind \in Kinds : PollWindow(kind) >= 0
    BY Windows, ChannelConstants
  <2>3. QED
    BY <2>1, <2>2 DEF ChannelInv, Init, Absent, Unissued, OffThePoll, Relayed, Reported,
       NotStranded, OneChannel, HonestAcross, Kinds
<1>2. ChannelInv /\ [Next]_vars => ChannelInv'
  <2> SUFFICES ASSUME ChannelInv, [Next]_vars PROVE ChannelInv'
    OBVIOUS
  <2>1. TypeOK'
    BY TypeStep DEF ChannelInv
  <2>2. \A m \in replies' : m.word \in Kinds
    BY RepliesStep DEF ChannelInv
  <2>3. \A c \in Cmd : Routed(c) /\ Honest(c)
    BY DEF ChannelInv, Routed, Honest, NotStranded, OneChannel, HonestAcross
  <2>4. \A c \in Cmd : Routed(c)'
    BY <2>3, RoutedStep DEF ChannelInv
  <2>5. \A c \in Cmd : Honest(c)'
    BY <2>3, HonestStep DEF ChannelInv
  <2>6. QED
    BY <2>1, <2>2, <2>4, <2>5 DEF ChannelInv, Routed, Honest, NotStranded, OneChannel, HonestAcross
<1>3. QED
    BY <1>1, <1>2, PTL DEF Spec

\* A row that the poll leaves out was taken by a provider, or issue_command has
\* not got past the SMS relay.
THEOREM NotStrandedHolds == Spec => []NotStranded
<1>1. ChannelInv => NotStranded
    BY DEF ChannelInv
<1>2. QED
    BY <1>1, ChannelInvHolds, PTL

\* The poll loop never runs a command whose text message a provider acknowledged.
THEOREM OneChannelHolds == Spec => []OneChannel
<1>1. ChannelInv => OneChannel
    BY DEF ChannelInv
<1>2. QED
    BY <1>1, ChannelInvHolds, PTL

\* A row says "executed" only of a command that had its effect on the phone.
THEOREM HonestAcrossHolds == Spec => []HonestAcross
<1>1. ChannelInv => HonestAcross
    BY DEF ChannelInv
<1>2. QED
    BY <1>1, ChannelInvHolds, PTL

\* The poll loop starts nothing that is finished, but for a record that another
\* command's update overwrote, and is handed nothing after the poll window of its
\* kind.
THEOREM PollOnceInTimeHolds == Spec => PollOnceInTime
<1>1. ChannelInv /\ [Next]_vars => [NotAgain /\ WithinWindow]_vars
  <2> SUFFICES ASSUME ChannelInv, Next PROVE NotAgain /\ WithinWindow
    BY DEF vars
  <2> USE DEF phoneVars
  <2>1. ASSUME NEW c \in finished \ dropped, [cmd |-> c, via |-> "poll"] \in running',
               [cmd |-> c, via |-> "poll"] \notin running
        PROVE  FALSE
    <3>1. tracker[c] # "none"
      BY DEF ChannelInv, TypeOK, Reported
    <3>2. ASSUME NEW d \in Cmd, RunPolled(d) PROVE FALSE
      <4>1. running' = running \cup {[cmd |-> d, via |-> "poll"]} /\ tracker[d] = "none"
        BY <3>2 DEF RunPolled
      <4>2. [cmd |-> c, via |-> "poll"] = [cmd |-> d, via |-> "poll"]
        BY <2>1, <4>1
      <4>3. QED
        BY <3>1, <4>1, <4>2
    <3>3. ASSUME NEW d \in Cmd, ReceiveSms(d) PROVE FALSE
      <4>1. running' \subseteq running \cup {[cmd |-> d, via |-> "sms"]}
        BY <3>3 DEF ReceiveSms
      <4>2. [cmd |-> c, via |-> "poll"] = [cmd |-> d, via |-> "sms"]
        BY <2>1, <4>1
      <4>3. QED
        BY <4>2
    <3>4. ASSUME NEW r \in running, Finish(r) PROVE FALSE
      BY <2>1, <3>4 DEF Finish
    <3>5. CASE UNCHANGED running
      BY <2>1, <3>5
    <3>6. QED
      BY <3>2, <3>3, <3>4, <3>5 DEF Next, Issue, SendSms, Restamp, SendPush, Die, ReadHistory,
         UssdMenu, UssdUnknown, UssdIssue, WhatsAppIssue, Poll, ReAck, ReceivePush, Ack,
         WriteBack, SmsInbound, Tick
  <2>2. ASSUME NEW c \in todo', c \notin todo
        PROVE  age[c] < PollWindow(row[c].kind)
    <3>1. CASE Poll
      <4>1. c \in Cmd /\ Deliverable(c)
        BY <3>1 DEF Poll
      <4>2. row[c].channel = "poll" /\ age[c] < row[c].window
        BY <4>1 DEF Deliverable, ChannelInv, TypeOK
      <4>3. row[c].window <= PollWindow(row[c].kind)
        BY <4>1, <4>2 DEF ChannelInv
      <4>4. age[c] \in Nat /\ row[c].window \in Nat /\ row[c].kind \in Kinds
        BY <4>1, ChannelConstants DEF ChannelInv, TypeOK
      <4>5. PollWindow(row[c].kind) \in Nat
        BY <4>4, Windows, ChannelConstants
      <4>6. QED
        BY <4>2, <4>3, <4>4, <4>5
    <3>2. CASE todo' \subseteq todo
      BY <2>2, <3>2
    <3>3. QED
      BY <3>1, <3>2 DEF Next, Issue, SendSms, Restamp, SendPush, Die, ReadHistory, UssdMenu,
         UssdUnknown, UssdIssue, WhatsAppIssue, ReAck, RunPolled, ReceiveSms, ReceivePush,
         Finish, WriteBack, Ack, SmsInbound, Tick
  <2>3. QED
    BY <2>1, <2>2 DEF NotAgain, WithinWindow
<1>2. QED
    BY <1>1, ChannelInvHolds, PTL DEF Spec, PollOnceInTime
-----------------------------------------------------------------------------
(* The run: one part of it, chosen at the start *)

all == <<part, vars, registers>>

\* Whichever part runs, the channels behave as CommandChannels specifies: they are
\* left alone while another part moves.
THEOREM ChannelsInRun == PartSpec => Spec
<1>1. PartInit => Init
    BY DEF PartInit, Resting
<1>2. [PartNext]_all => [Next]_vars
    BY DEF PartNext, all
<1>3. QED
    BY <1>1, <1>2, PTL DEF PartSpec, Spec, all

\* The part is the same for ever, and where it is one of theft mode or the evidence
\* chain, the registers behave as that one specifies.
LEMMA ScoresInRun ==
    PartSpec => []~(part = "scores") \/ ([](part = "scores") /\ Scores!Spec)
<1>1. PartInit /\ part = "scores" => Scores!Init
    BY DEF PartInit
<1>2. part = "scores" /\ [PartNext]_all => (part = "scores")' /\ [Scores!Next]_Scores!vars
    BY DEF PartNext, all, registers, more, Scores!vars
<1>3. ~(part = "scores") /\ [PartNext]_all => ~(part = "scores")'
    BY DEF PartNext, all
<1>4. QED
    BY <1>1, <1>2, <1>3, PTL DEF PartSpec, Scores!Spec, all

\* The same of a device with a zone.
LEMMA ZoneInRun ==
    PartSpec => []~(part = "zone") \/ ([](part = "zone") /\ Zone!Spec)
<1>1. PartInit /\ part = "zone" => Zone!Init
    BY DEF PartInit
<1>2. part = "zone" /\ [PartNext]_all => (part = "zone")' /\ [Zone!Next]_Zone!vars
    BY DEF PartNext, all, registers, more, Zone!vars
<1>3. ~(part = "zone") /\ [PartNext]_all => ~(part = "zone")'
    BY DEF PartNext, all
<1>4. QED
    BY <1>1, <1>2, <1>3, PTL DEF PartSpec, Zone!Spec, all

\* The same of the evidence chain.
LEMMA EvidenceInRun ==
    PartSpec => []~(part = "evidence") \/ ([](part = "evidence") /\ Evidence!Spec)
<1>1. PartInit /\ part = "evidence" => Evidence!Init
    BY DEF PartInit
<1>2. part = "evidence" /\ [PartNext]_all => (part = "evidence")' /\ [Evidence!Next]_Evidence!vars
    BY DEF PartNext, all, registers, more, Evidence!vars
<1>3. ~(part = "evidence") /\ [PartNext]_all => ~(part = "evidence")'
    BY DEF PartNext, all
<1>4. QED
    BY <1>1, <1>2, <1>3, PTL DEF PartSpec, Evidence!Spec, all

-----------------------------------------------------------------------------
(* The copies of the parts *)

\* Proofs has what is proved of theft mode and of the evidence chain, in the places
\* of Scores and of Evidence, and ZoneProofs what is proved of theft mode in the
\* place of Zone.  The other parts of ServerProofs are not used here.
Proofs == INSTANCE ServerProofs WITH
    Positions <- {Ping({}, FALSE), Ping(High, FALSE), Ping(Critical, FALSE)},
    Policies <- {"none"}, MaxCases <- 2, MaxSame <- 1,
    mode <- r1, scores <- r2, cases <- r3, commands <- r4, recent <- r5, policy <- r6,
    lastInside <- r7, job <- r8, streak <- r9,
    media <- r1, listed <- r2, case <- r3, chain <- r4, count <- r5, upload <- r6, delete <- r7,
    old <- r8, purge <- r9, rushed <- r10, drifted <- r11,
    Thread <- {}, MaxPools <- {}, Worker <- {}, User <- {}, Operator <- {}, Device <- {},
    Phone <- {}, Allowances <- {}, MaxUnowned <- {}, MaxGrants <- {}, ResetLink <- {},
    VerifyLink <- {}, Token <- {}, MaxSecrets <- {}, MaxPeriod <- {}, MaxLogins <- {}, Flag <- {},
    Keep <- {}, MaxEdits <- {}, Query <- {}, MaxDeploys <- {}, MaxFaults <- {}, MaxCodes <- {},
    MaxChanges <- {}, Limiter <- {}, Most <- {}, Window <- {}, KeepRows <- {}, MemoryMost <- {},
    MaxTime <- {}, db <- 0, open <- 0, made <- 0, lock <- 0, thread <- 0, orphans <- 0,
    closing <- 0, account <- 0, allowance <- 0, row <- 0, share <- 0, grants <- 0, req <- 0,
    best <- 0, late <- 0, cred <- 0, verified <- 0, period <- 0, secret <- 0, setups <- 0,
    enabled <- 0, last <- 0, challenge <- 0, asked <- 0, uses <- 0, accepted <- 0, proved <- 0,
    raced <- 0, file <- 0, cache <- 0, age <- 0, quiet <- 0, edits <- 0, files <- 0, digests <- 0,
    hashing <- 0, deploys <- 0, postgres <- 0, tables <- 0, columns <- 0, worker <- 0,
    faults <- 0, circle <- 0, owner <- 0, code <- 0, members <- 0, shared <- 0, living <- 0,
    holder <- 0, admins <- 0, changes <- 0, posed <- 0, overtaken <- 0, now <- 0, rows <- 0,
    checking <- 0, bucket <- 0, granted <- 0, passed <- 0, beaten <- 0

ZoneProofs == INSTANCE ServerProofs WITH
    Positions <- {Ping({}, TRUE), Ping(Critical, FALSE)},
    Policies <- {"capture", "siren"}, MaxCases <- 1, MaxSame <- 2,
    mode <- r1, scores <- r2, cases <- r3, commands <- r4, recent <- r5, policy <- r6,
    lastInside <- r7, job <- r8, streak <- r9,
    media <- r1, listed <- r2, case <- r3, chain <- r4, count <- r5, upload <- r6, delete <- r7,
    old <- r8, purge <- r9, rushed <- r10, drifted <- r11,
    Thread <- {}, MaxPools <- {}, Worker <- {}, User <- {}, Operator <- {}, Device <- {},
    Phone <- {}, Allowances <- {}, MaxUnowned <- {}, MaxGrants <- {}, ResetLink <- {},
    VerifyLink <- {}, Token <- {}, MaxSecrets <- {}, MaxPeriod <- {}, MaxLogins <- {}, Flag <- {},
    Keep <- {}, MaxEdits <- {}, Query <- {}, MaxDeploys <- {}, MaxFaults <- {}, MaxCodes <- {},
    MaxChanges <- {}, Limiter <- {}, Most <- {}, Window <- {}, KeepRows <- {}, MemoryMost <- {},
    MaxTime <- {}, db <- 0, open <- 0, made <- 0, lock <- 0, thread <- 0, orphans <- 0,
    closing <- 0, account <- 0, allowance <- 0, row <- 0, share <- 0, grants <- 0, req <- 0,
    best <- 0, late <- 0, cred <- 0, verified <- 0, period <- 0, secret <- 0, setups <- 0,
    enabled <- 0, last <- 0, challenge <- 0, asked <- 0, uses <- 0, accepted <- 0, proved <- 0,
    raced <- 0, file <- 0, cache <- 0, age <- 0, quiet <- 0, edits <- 0, files <- 0, digests <- 0,
    hashing <- 0, deploys <- 0, postgres <- 0, tables <- 0, columns <- 0, worker <- 0,
    faults <- 0, circle <- 0, owner <- 0, code <- 0, members <- 0, shared <- 0, living <- 0,
    holder <- 0, admins <- 0, changes <- 0, posed <- 0, overtaken <- 0, now <- 0, rows <- 0,
    checking <- 0, bucket <- 0, granted <- 0, passed <- 0, beaten <- 0

\* Theft mode starts and steps as the copy of it that the proofs speak of.
LEMMA SameScoresSteps ==
    (Scores!Init <=> Proofs!Theft!Init) /\ (Scores!Next <=> Proofs!Theft!Next)
<1> USE DEF Scores!Kinds, Proofs!Theft!Kinds, Scores!Slot, Proofs!Theft!Slot, Scores!Idle,
    Proofs!Theft!Idle, Scores!Lesser, Proofs!Theft!Lesser, Scores!Newest, Proofs!Theft!Newest,
    Scores!Level, Proofs!Theft!Level, Scores!Elevated, Proofs!Theft!Elevated, Scores!Ceiling,
    Proofs!Theft!Ceiling, Scores!WeightOf, Proofs!Theft!WeightOf, Scores!RawScore,
    Proofs!Theft!RawScore, Scores!Confirmed, Proofs!Theft!Confirmed, Scores!Score,
    Proofs!Theft!Score, Scores!Pending, Proofs!Theft!Pending, Scores!Free, Proofs!Theft!Free,
    Scores!Queued, Proofs!Theft!Queued, Scores!Receive, Proofs!Theft!Receive, Scores!Persist,
    Proofs!Theft!Persist, Scores!CheckMode, Proofs!Theft!CheckMode, Scores!Active,
    Proofs!Theft!Active, Scores!Opened, Proofs!Theft!Opened, Scores!Activate,
    Proofs!Theft!Activate, Scores!CheckUnlock, Proofs!Theft!CheckUnlock, Scores!QueueCapture,
    Proofs!Theft!QueueCapture, Scores!CheckFence, Proofs!Theft!CheckFence, Scores!Action,
    Proofs!Theft!Action, Scores!Suppressed, Proofs!Theft!Suppressed, Scores!Cross,
    Proofs!Theft!Cross, Scores!Closing, Proofs!Theft!Closing, Scores!Recover, Proofs!Theft!Recover,
    Scores!Report, Proofs!Theft!Report, Scores!OpenForReport, Proofs!Theft!OpenForReport,
    Scores!ReadHistory, Proofs!Theft!ReadHistory, Scores!Acknowledge, Proofs!Theft!Acknowledge,
    Scores!FiveMinutes, Proofs!Theft!FiveMinutes, Scores!ThirtyMinutes, Proofs!Theft!ThirtyMinutes,
    Scores!Init, Proofs!Theft!Init, Scores!Next, Proofs!Theft!Next, Scores!Cardinality,
    Proofs!Theft!Cardinality, Scores!Min, Proofs!Theft!Min, Scores!Max, Proofs!Theft!Max,
    Scores!MapThenSumSet, Proofs!Theft!MapThenSumSet, Scores!MapThenFoldSet,
    Proofs!Theft!MapThenFoldSet
<1>1. Scores!Init <=> Proofs!Theft!Init
    BY Zenon
<1>2. Scores!Next <=> Proofs!Theft!Next
    BY Zenon
<1>3. QED
    BY ONLY <1>1, <1>2

\* So the two copies have the same behaviours.
LEMMA SameScores == Scores!Spec <=> Proofs!Theft!Spec
    BY SameScoresSteps, PTL DEF Scores!Spec, Proofs!Theft!Spec, Scores!vars, Proofs!Theft!vars

\* The same of a device with a zone.
LEMMA SameZoneSteps ==
    (Zone!Init <=> ZoneProofs!Theft!Init) /\ (Zone!Next <=> ZoneProofs!Theft!Next)
<1> USE DEF Zone!Kinds, ZoneProofs!Theft!Kinds, Zone!Slot, ZoneProofs!Theft!Slot, Zone!Idle,
    ZoneProofs!Theft!Idle, Zone!Lesser, ZoneProofs!Theft!Lesser, Zone!Newest,
    ZoneProofs!Theft!Newest, Zone!Level, ZoneProofs!Theft!Level, Zone!Elevated,
    ZoneProofs!Theft!Elevated, Zone!Ceiling, ZoneProofs!Theft!Ceiling, Zone!WeightOf,
    ZoneProofs!Theft!WeightOf, Zone!RawScore, ZoneProofs!Theft!RawScore, Zone!Confirmed,
    ZoneProofs!Theft!Confirmed, Zone!Score, ZoneProofs!Theft!Score, Zone!Pending,
    ZoneProofs!Theft!Pending, Zone!Free, ZoneProofs!Theft!Free, Zone!Queued,
    ZoneProofs!Theft!Queued, Zone!Receive, ZoneProofs!Theft!Receive, Zone!Persist,
    ZoneProofs!Theft!Persist, Zone!CheckMode, ZoneProofs!Theft!CheckMode, Zone!Active,
    ZoneProofs!Theft!Active, Zone!Opened, ZoneProofs!Theft!Opened, Zone!Activate,
    ZoneProofs!Theft!Activate, Zone!CheckUnlock, ZoneProofs!Theft!CheckUnlock, Zone!QueueCapture,
    ZoneProofs!Theft!QueueCapture, Zone!CheckFence, ZoneProofs!Theft!CheckFence, Zone!Action,
    ZoneProofs!Theft!Action, Zone!Suppressed, ZoneProofs!Theft!Suppressed, Zone!Cross,
    ZoneProofs!Theft!Cross, Zone!Closing, ZoneProofs!Theft!Closing, Zone!Recover,
    ZoneProofs!Theft!Recover, Zone!Report, ZoneProofs!Theft!Report, Zone!OpenForReport,
    ZoneProofs!Theft!OpenForReport, Zone!ReadHistory, ZoneProofs!Theft!ReadHistory,
    Zone!Acknowledge, ZoneProofs!Theft!Acknowledge, Zone!FiveMinutes, ZoneProofs!Theft!FiveMinutes,
    Zone!ThirtyMinutes, ZoneProofs!Theft!ThirtyMinutes, Zone!Init, ZoneProofs!Theft!Init,
    Zone!Next, ZoneProofs!Theft!Next, Zone!Cardinality, ZoneProofs!Theft!Cardinality, Zone!Min,
    ZoneProofs!Theft!Min, Zone!Max, ZoneProofs!Theft!Max, Zone!MapThenSumSet,
    ZoneProofs!Theft!MapThenSumSet, Zone!MapThenFoldSet, ZoneProofs!Theft!MapThenFoldSet
<1>1. Zone!Init <=> ZoneProofs!Theft!Init
    BY Zenon
<1>2. Zone!Next <=> ZoneProofs!Theft!Next
    BY Zenon
<1>3. QED
    BY ONLY <1>1, <1>2

\* So the two copies have the same behaviours.
LEMMA SameZone == Zone!Spec <=> ZoneProofs!Theft!Spec
    BY SameZoneSteps, PTL DEF Zone!Spec, ZoneProofs!Theft!Spec, Zone!vars, ZoneProofs!Theft!vars

\* The same of the evidence chain.
LEMMA SameEvidenceSteps ==
    (Evidence!Init <=> Proofs!Media!Init) /\ (Evidence!Next <=> Proofs!Media!Next)
<1> USE DEF Evidence!NoUpload, Proofs!Media!NoUpload, Evidence!NoDelete, Proofs!Media!NoDelete,
    Evidence!Verdict, Proofs!Media!Verdict, Evidence!At, Proofs!Media!At, Evidence!Unlocked,
    Proofs!Media!Unlocked, Evidence!To, Proofs!Media!To, Evidence!Save, Proofs!Media!Save,
    Evidence!ChooseCase, Proofs!Media!ChooseCase, Evidence!Insert, Proofs!Media!Insert,
    Evidence!ReadChain, Proofs!Media!ReadChain, Evidence!Linked, Proofs!Media!Linked,
    Evidence!WriteChain, Proofs!Media!WriteChain, Evidence!CountItem, Proofs!Media!CountItem,
    Evidence!UploadDies, Proofs!Media!UploadDies, Evidence!Find, Proofs!Media!Find,
    Evidence!Unlink, Proofs!Media!Unlink, Evidence!Uncounted, Proofs!Media!Uncounted,
    Evidence!Drop, Proofs!Media!Drop, Evidence!DeleteDies, Proofs!Media!DeleteDies, Evidence!Grow,
    Proofs!Media!Grow, Evidence!Purgeable, Proofs!Media!Purgeable, Evidence!PurgeFiles,
    Proofs!Media!PurgeFiles, Evidence!PurgeRows, Proofs!Media!PurgeRows, Evidence!PurgeDies,
    Proofs!Media!PurgeDies, Evidence!OpenCase, Proofs!Media!OpenCase, Evidence!CloseCase,
    Proofs!Media!CloseCase, Evidence!Init, Proofs!Media!Init, Evidence!Next, Proofs!Media!Next,
    Evidence!Cardinality, Proofs!Media!Cardinality, Evidence!IsFiniteSet, Proofs!Media!IsFiniteSet,
    Evidence!Range, Proofs!Media!Range, Evidence!IsInjective, Proofs!Media!IsInjective
<1>1. Evidence!Init <=> Proofs!Media!Init
    BY Zenon
<1>2. Evidence!Next <=> Proofs!Media!Next
    BY Zenon
<1>3. QED
    BY ONLY <1>1, <1>2

\* So the two copies have the same behaviours.
LEMMA SameEvidence == Evidence!Spec <=> Proofs!Media!Spec
    BY SameEvidenceSteps, PTL DEF Evidence!Spec, Proofs!Media!Spec, Evidence!vars, Proofs!Media!vars

\* The constants are those that the proofs ask for.
LEMMA DeviceBounds ==
    /\ Proofs!Theft!TheftConstants /\ Proofs!Theft!GateConstants
    /\ ZoneProofs!Theft!TheftConstants /\ ZoneProofs!Theft!GateConstants
    /\ Proofs!Media!EvidenceConstants
<1> USE DeviceConstants DEF DeviceConstants
<1>1. Proofs!Theft!TheftConstants
    BY DEF Scores!TheftConstants, Proofs!Theft!TheftConstants
<1>2. ZoneProofs!Theft!TheftConstants
    BY DEF Zone!TheftConstants, ZoneProofs!Theft!TheftConstants
<1>3. Proofs!Theft!GateConstants
  <2>1. Scores!GateConstants <=> Proofs!Theft!GateConstants
    BY ONLY Zenon
    DEF Scores!GateConstants, Proofs!Theft!GateConstants, Scores!WeightOf,
        Proofs!Theft!WeightOf, Scores!MapThenSumSet, Proofs!Theft!MapThenSumSet,
        Scores!MapThenFoldSet, Proofs!Theft!MapThenFoldSet
  <2>2. QED
    BY <2>1
<1>4. ZoneProofs!Theft!GateConstants
  <2>1. Zone!GateConstants <=> ZoneProofs!Theft!GateConstants
    BY ONLY Zenon
    DEF Zone!GateConstants, ZoneProofs!Theft!GateConstants, Zone!WeightOf,
        ZoneProofs!Theft!WeightOf, Zone!MapThenSumSet, ZoneProofs!Theft!MapThenSumSet,
        Zone!MapThenFoldSet, ZoneProofs!Theft!MapThenFoldSet
  <2>2. QED
    BY <2>1
<1>5. Proofs!Media!EvidenceConstants
    BY DEF Evidence!EvidenceConstants, Proofs!Media!EvidenceConstants, Evidence!IsFiniteSet,
           Proofs!Media!IsFiniteSet
<1>6. QED
    BY ONLY <1>1, <1>2, <1>3, <1>4, <1>5

-----------------------------------------------------------------------------
(* What the run checks *)

\* The device is stolen exactly while a case opened by an activation is active,
\* whether it has a zone or not (auto_activate_theft_mode, mark_device_recovered).
THEOREM CaseMatchesModeInRun == PartSpec => []CaseMatchesMode
<1>1. Scores!Spec => []Scores!CaseMatchesMode
  <2>1. Proofs!Theft!Spec => []Proofs!Theft!CaseMatchesMode
    BY Proofs!CaseMatchesModeHolds, DeviceBounds
  <2>2. Proofs!Theft!CaseMatchesMode <=> Scores!CaseMatchesMode
    BY DEF Proofs!Theft!CaseMatchesMode, Scores!CaseMatchesMode
  <2>3. QED
    BY <2>1, <2>2, SameScores, PTL
<1>2. Zone!Spec => []Zone!CaseMatchesMode
  <2>1. ZoneProofs!Theft!Spec => []ZoneProofs!Theft!CaseMatchesMode
    BY ZoneProofs!CaseMatchesModeHolds, DeviceBounds
  <2>2. ZoneProofs!Theft!CaseMatchesMode <=> Zone!CaseMatchesMode
    BY DEF ZoneProofs!Theft!CaseMatchesMode, Zone!CaseMatchesMode
  <2>3. QED
    BY <2>1, <2>2, SameZone, PTL
<1>3. CaseMatchesMode <=> /\ ~(part = "scores") \/ Scores!CaseMatchesMode
                          /\ ~(part = "zone") \/ Zone!CaseMatchesMode
    BY DEF CaseMatchesMode
<1>4. QED
    BY <1>1, <1>2, <1>3, ScoresInRun, ZoneInRun, PTL

\* Leaving a zone piles up no second siren or capture beside one the phone can
\* still fetch (_queue_auto_action).
THEOREM OnePerExitInRun == PartSpec => []OnePerExit
<1>1. ZoneProofs!Theft!Spec => []ZoneProofs!Theft!OnePerExit
    BY ZoneProofs!OnePerExitHolds, DeviceBounds
<1>2. ZoneProofs!Theft!OnePerExit <=> Zone!OnePerExit
    BY Zenon DEF ZoneProofs!Theft!OnePerExit, Zone!OnePerExit, ZoneProofs!Theft!Kinds, Zone!Kinds,
        ZoneProofs!Theft!Slot, Zone!Slot, ZoneProofs!Theft!Cardinality, Zone!Cardinality
<1>3. OnePerExit <=> ~(part = "zone") \/ Zone!OnePerExit
    BY DEF OnePerExit
<1>4. QED
    BY <1>1, <1>2, <1>3, SameZone, ZoneInRun, PTL

\* One critical ping alone does not set off theft mode and a streak of them does,
\* for each of the two devices of TheftMode (the confirmation gate of compute_score).
THEOREM ActivationInRun == PartSpec => Activation
<1> DEFINE Gate == Scores!NoSingleShotStep /\ Scores!NotStuckStep
<1>1. Proofs!Theft!Spec => Proofs!Theft!NoSingleShot /\ Proofs!Theft!NotStuck
  <2>1. Proofs!Theft!Spec =>
            []Proofs!Theft!TypeOK /\ Proofs!Theft!NoSingleShot /\ Proofs!Theft!NotStuck
    BY Proofs!ActivationHolds, DeviceBounds
  <2>2. QED
    BY <2>1
<1>2. [Proofs!Theft!NoSingleShotStep]_(Proofs!Theft!vars)
      /\ [Proofs!Theft!NotStuckStep]_(Proofs!Theft!vars) => [part = "scores" => Gate]_registers
    BY DEF Proofs!Theft!NoSingleShotStep, Proofs!Theft!NotStuckStep, Proofs!Theft!vars,
           Scores!NoSingleShotStep, Scores!NotStuckStep
<1>3. ~(part = "scores") => [part = "scores" => Gate]_registers
    OBVIOUS
<1>4. QED
    BY <1>1, <1>2, <1>3, SameScores, ScoresInRun, PTL
    DEF Activation, Proofs!Theft!NoSingleShot, Proofs!Theft!NotStuck

\* Every photo of the case is in its chain of custody (update_chain).
THEOREM InCustodyInRun == PartSpec => []InCustody
<1>1. Proofs!Media!Spec => []Proofs!Media!InCustody
    BY Proofs!InCustodyHolds, DeviceBounds
<1>2. Proofs!Media!InCustody <=> Evidence!InCustody
    BY Zenon DEF Proofs!Media!InCustody, Evidence!InCustody, Proofs!Media!Range, Evidence!Range
<1>3. InCustody <=> ~(part = "evidence") \/ Evidence!InCustody
    BY DEF InCustody
<1>4. QED
    BY <1>1, <1>2, <1>3, SameEvidence, EvidenceInRun, PTL

\* Rows have their files, and the case's counter is the number of its rows
\* (post_media, delete_media).
THEOREM CountsRowsInRun == PartSpec => []CountsRows
<1>1. Proofs!Media!Spec => [](Proofs!Media!FileBehindRow /\ Proofs!Media!CountsRows)
    BY Proofs!CountsRowsHolds, DeviceBounds
<1>2. Proofs!Media!FileBehindRow <=> Evidence!FileBehindRow
    BY Zenon DEF Proofs!Media!FileBehindRow, Evidence!FileBehindRow
<1>3. Proofs!Media!CountsRows <=> Evidence!CountsRows
    BY Zenon DEF Proofs!Media!CountsRows, Evidence!CountsRows, Proofs!Media!Cardinality,
        Evidence!Cardinality
<1>4. CountsRows <=> ~(part = "evidence") \/ (Evidence!FileBehindRow /\ Evidence!CountsRows)
    BY DEF CountsRows
<1>5. QED
    BY <1>1, <1>2, <1>3, <1>4, SameEvidence, EvidenceInRun, PTL

\* The purge takes nothing of the case while it is open (purge_old_data).
THEOREM OpenCaseKeptInRun == PartSpec => []OpenCaseKept
<1>1. Proofs!Media!Spec => []Proofs!Media!OpenCaseKept
    BY Proofs!OpenCaseKeptHolds, DeviceBounds
<1>2. Proofs!Media!OpenCaseKept <=> Evidence!OpenCaseKept
    BY Zenon DEF Proofs!Media!OpenCaseKept, Evidence!OpenCaseKept, Proofs!Media!At, Evidence!At
<1>3. OpenCaseKept <=> ~(part = "evidence") \/ Evidence!OpenCaseKept
    BY DEF OpenCaseKept
<1>4. QED
    BY <1>1, <1>2, <1>3, SameEvidence, EvidenceInRun, PTL

\* Every variable of every part has its type.
THEOREM AllTypesInRun == PartSpec => []AllTypes
<1>1. Spec => []TypeOK
  <2>1. ChannelInv => TypeOK
    BY DEF ChannelInv
  <2>2. QED
    BY <2>1, ChannelInvHolds, PTL
<1>2. Scores!Spec => []Scores!TypeOK
  <2>1. Proofs!Theft!Spec => []Proofs!Theft!TypeOK
    <3>1. Proofs!Theft!Spec =>
              []Proofs!Theft!TypeOK /\ Proofs!Theft!NoSingleShot /\ Proofs!Theft!NotStuck
      BY Proofs!ActivationHolds, DeviceBounds
    <3>2. QED
      BY <3>1
  <2>2. Proofs!Theft!TypeOK <=> Scores!TypeOK
    BY Zenon DEF Proofs!Theft!TypeOK, Scores!TypeOK, Proofs!Theft!Slot, Scores!Slot,
        Proofs!Theft!Kinds, Scores!Kinds,
        Proofs!Theft!Jobs, Scores!Jobs, Proofs!Theft!Steps, Scores!Steps
  <2>3. QED
    BY <2>1, <2>2, SameScores, PTL
<1>3. Zone!Spec => []Zone!TypeOK
  <2>1. ZoneProofs!Theft!Spec => []ZoneProofs!Theft!TypeOK
    <3>1. ZoneProofs!Theft!Spec =>
              /\ []ZoneProofs!Theft!TypeOK
              /\ ZoneProofs!Theft!NoSingleShot /\ ZoneProofs!Theft!NotStuck
      BY ZoneProofs!ActivationHolds, DeviceBounds
    <3>2. QED
      BY <3>1
  <2>2. ZoneProofs!Theft!TypeOK <=> Zone!TypeOK
    BY Zenon DEF ZoneProofs!Theft!TypeOK, Zone!TypeOK, ZoneProofs!Theft!Slot, Zone!Slot,
        ZoneProofs!Theft!Kinds, Zone!Kinds,
        ZoneProofs!Theft!Jobs, Zone!Jobs, ZoneProofs!Theft!Steps, Zone!Steps
  <2>3. QED
    BY <2>1, <2>2, SameZone, PTL
<1>4. Evidence!Spec => []Evidence!TypeOK
  <2>1. Proofs!Media!Spec => []Proofs!Media!TypeOK
    BY Proofs!EvidenceTypeCorrect, DeviceBounds
  <2>2. Proofs!Media!TypeOK <=> Evidence!TypeOK
    BY Zenon DEF Proofs!Media!TypeOK, Evidence!TypeOK, Proofs!Media!IsInjective,
        Evidence!IsInjective, Proofs!Media!Cardinality, Evidence!Cardinality
  <2>3. QED
    BY <2>1, <2>2, SameEvidence, PTL
<1>5. AllTypes <=> /\ ~(part = "scores") \/ Scores!TypeOK
                   /\ ~(part = "zone") \/ Zone!TypeOK
                   /\ TypeOK
                   /\ ~(part = "evidence") \/ Evidence!TypeOK
    BY DEF AllTypes
<1>6. QED
    BY <1>1, <1>2, <1>3, <1>4, <1>5, ChannelsInRun, ScoresInRun, ZoneInRun, EvidenceInRun, PTL
=============================================================================
