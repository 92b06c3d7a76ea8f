---------------------------- MODULE CommerceMirror ----------------------------
(***************************************************************************)
(* The indexer's mirror of CommerceRegistry: the handlers of               *)
(* indexer/src/handlers/commerce.ts over the tables of                     *)
(* indexer/migrations/009_commerce.sql, behind the polling loop.  Columns  *)
(* that carry no state of CommerceRegistry are left out.                   *)
(***************************************************************************)
EXTENDS CommerceRegistry, EventLoop

mirrorVars == <<vars, loopVars>>

MirrorInit ==
  /\ Init
  /\ LoopInit({"merchants", "services", "facilitators", "quotes", "receipts", "disputes", "signals"})

----------------------------------------------------------------------------
(* The contract, with the event every call emits.                          *)

Chain ==
  \/ \E sender \in Address :
       \/ RegisterMerchant(sender)
          /\ Emit([type |-> "MerchantRegistered", id |-> Len(merchants) + 1, owner |-> sender])
       \/ \E m \in DOMAIN merchants, active \in BOOLEAN :
            UpdateMerchant(sender, m, active)
            /\ Emit([type |-> "MerchantUpdated", id |-> m, active |-> active])
       \/ \E m \in DOMAIN merchants, sid \in ServiceId :
            RegisterService(sender, m, sid)
            /\ Emit([type |-> "ServiceRegistered", id |-> Len(services) + 1,
                     merchantId |-> m, serviceId |-> sid])
       \/ \E s \in DOMAIN services, active \in BOOLEAN :
            UpdateService(sender, s, active)
            /\ Emit([type |-> "ServiceUpdated", id |-> s, active |-> active])
       \/ \E f \in DOMAIN facilitatorsById, active \in BOOLEAN :
            UpdateFacilitator(sender, f, active)
            /\ Emit([type |-> "FacilitatorUpdated", id |-> f, facilitator |-> sender, active |-> active])
       \/ \E c \in Commitments :
            \/ CommitQuote(sender, c) /\ Emit([type |-> "QuoteCommitted", quote |-> c])
            \/ RecordReceipt(sender, c)
               /\ Emit([type |-> "ReceiptRecorded", id |-> Len(receipts) + 1, quote |-> c])
       \/ \E r \in DOMAIN receipts :
            \/ \E h \in Hash \cup {ZeroHash} :
                 RecordFulfillment(sender, r, h)
                 /\ Emit([type |-> "FulfillmentRecorded", id |-> r, fulfillmentHash |-> h])
            \/ OpenDispute(sender, r)
               /\ Emit([type |-> "DisputeOpened", id |-> Len(disputes) + 1, receiptId |-> r,
                        opener |-> sender])
       \/ \E d \in DOMAIN disputes, status \in Status, h \in Hash :
            ResolveDispute(sender, d, status, h)
            /\ Emit([type |-> "DisputeResolved", id |-> d, status |-> status, resolutionHash |-> h])
       \/ RecordTrustSignal(sender)
          /\ Emit([type |-> "TrustSignalRecorded", id |-> Len(trustSignals) + 1, reporter |-> sender])
  \/ \E f \in Address \cup {ZeroAddress} :
       RegisterFacilitator(f)
       /\ Emit([type |-> "FacilitatorRegistered", id |-> FacilitatorIdFor(f), facilitator |-> f])
  \/ Tick /\ UNCHANGED loopVars

----------------------------------------------------------------------------
(* The handlers.                                                           *)

HandleMerchantRegistered ==
  /\ Handle("MerchantRegistered")
  /\ Upsert("merchants", Event.id, [owner |-> Event.owner, active |-> TRUE])

HandleServiceRegistered ==
  /\ Handle("ServiceRegistered")
  /\ Has("merchants", Event.merchantId)
  /\ \A s \in DOMAIN rows.services :     \* idx_services_merchant_service_id
       /\ rows.services[s].merchantId = Event.merchantId
       /\ rows.services[s].serviceId = Event.serviceId
       => s = Event.id
  /\ Upsert("services", Event.id,
            [merchantId |-> Event.merchantId, serviceId |-> Event.serviceId, active |-> TRUE])

HandleFacilitatorRegistered ==
  /\ Handle("FacilitatorRegistered")
  /\ Upsert("facilitators", Event.id, [facilitator |-> Event.facilitator, active |-> TRUE])

HandleUpdated(table, type) ==
  /\ Handle(type)
  /\ Update(table, Event.id, [rows[table][Event.id] EXCEPT !.active = Event.active])

\* The settled column is no part of the update: a quote committed again stays settled.
HandleQuoteCommitted ==
  /\ Handle("QuoteCommitted")
  /\ Has("merchants", Event.quote.merchantId)
  /\ Has("services", Event.quote.serviceNumericId)
  /\ Upsert("quotes", Event.quote, Has("quotes", Event.quote) /\ rows.quotes[Event.quote])

\* The first of two queries; the process may die before the second.
HandleReceiptRecorded ==
  /\ Handle("ReceiptRecorded")
  /\ Has("quotes", Event.quote)
  /\ Upsert("receipts", Event.id, [quote |-> Event.quote, fulfillmentHash |-> ZeroHash])

\* Mutant of MarkSettled: an UPDATE without its WHERE.
MutantMarkSettled(quote) ==
  rows' = [rows EXCEPT !.quotes = [k \in DOMAIN @ |-> TRUE]]

MarkSettled(quote) == Update("quotes", quote, TRUE)

HandleFulfillmentRecorded ==
  /\ Handle("FulfillmentRecorded")
  /\ Update("receipts", Event.id,
            [rows.receipts[Event.id] EXCEPT !.fulfillmentHash = Event.fulfillmentHash])

HandleTrustSignalRecorded ==
  /\ Handle("TrustSignalRecorded")
  /\ Upsert("signals", Event.id, Event.reporter)

HandleDisputeOpened ==
  /\ Handle("DisputeOpened")
  /\ Has("receipts", Event.receiptId)
  /\ Upsert("disputes", Event.id,
            [receiptId |-> Event.receiptId, opener |-> Event.opener, status |-> "OPEN",
             resolutionHash |-> IF Has("disputes", Event.id) THEN rows.disputes[Event.id].resolutionHash
                                ELSE ZeroHash])

\* Mutant of Decided: a dispute that was decided is not decided again.
MutantDecided(dispute) ==
  IF dispute.status # "OPEN" THEN dispute
  ELSE [dispute EXCEPT !.status = Event.status, !.resolutionHash = Event.resolutionHash]

Decided(dispute) ==
  [dispute EXCEPT !.status = Event.status, !.resolutionHash = Event.resolutionHash]

HandleDisputeResolved ==
  /\ Handle("DisputeResolved")
  /\ Update("disputes", Event.id, Decided(rows.disputes[Event.id]))

Handler ==
  \/ HandleMerchantRegistered
  \/ HandleServiceRegistered
  \/ HandleFacilitatorRegistered
  \/ HandleUpdated("merchants", "MerchantUpdated")
  \/ HandleUpdated("services", "ServiceUpdated")
  \/ HandleUpdated("facilitators", "FacilitatorUpdated")
  \/ HandleQuoteCommitted
  \/ HandleFulfillmentRecorded
  \/ HandleTrustSignalRecorded
  \/ HandleDisputeOpened
  \/ HandleDisputeResolved

\* The database refuses the row; the error is logged and the event skipped.
Refused ==
  /\ pending = {} /\ at < Len(log)
  /\ \/ /\ Event.type = "ServiceRegistered"
        /\ \/ ~Has("merchants", Event.merchantId)
           \/ \E s \in DOMAIN rows.services \ {Event.id} :
                /\ rows.services[s].merchantId = Event.merchantId
                /\ rows.services[s].serviceId = Event.serviceId
     \/ /\ Event.type = "QuoteCommitted"
        /\ ~Has("services", Event.quote.serviceNumericId)
     \/ Event.type = "ReceiptRecorded" /\ ~Has("quotes", Event.quote)
     \/ Event.type = "DisputeOpened" /\ ~Has("receipts", Event.receiptId)
  /\ UNCHANGED rows

HandleNext ==
  /\ \/ (Handler \/ Refused) /\ Done
     \/ HandleReceiptRecorded /\ Halfway(Event.quote)
     \/ \E quote \in pending : MarkSettled(quote) /\ Done
  /\ UNCHANGED <<log, stored, crashes>>

MirrorNext ==
  \/ Chain
  \/ (HandleNext \/ Store \/ Crash) /\ UNCHANGED vars

MirrorSpec == MirrorInit /\ [][MirrorNext]_mirrorVars

----------------------------------------------------------------------------
(* Properties.                                                             *)

\* No row is made up, whatever was skipped, replayed or interrupted: it is of
\* a record of the contract, with the parties that record has, and a quote is
\* shown as settled only if the contract recorded a receipt of it.
RowsReal ==
  /\ \A m \in DOMAIN rows.merchants : rows.merchants[m].owner = merchants[m].owner
  /\ \A s \in DOMAIN rows.services :
       /\ rows.services[s].merchantId = services[s].merchantId
       /\ rows.services[s].merchantId \in DOMAIN rows.merchants
  /\ \A f \in DOMAIN rows.facilitators :
       rows.facilitators[f].facilitator = facilitatorsById[f].facilitator
  /\ \A c \in DOMAIN rows.quotes : Committed(c) /\ (rows.quotes[c] => ReceiptsOf(c) # {})
  /\ \A r \in DOMAIN rows.receipts : rows.receipts[r].quote = receipts[r].quote
  /\ \A d \in DOMAIN rows.disputes :
       /\ rows.disputes[d].opener = disputes[d].opener
       /\ rows.disputes[d].receiptId = disputes[d].receiptId

\* Nothing the database would refuse: no merchant used a service id twice.
ServiceIdsUnique ==
  \A s, t \in DOMAIN services :
    services[s].merchantId = services[t].merchantId /\ services[s].serviceId = services[t].serviceId
    => s = t

SameRows(table, records) ==
  DOMAIN rows[table] = DOMAIN records /\ \A k \in DOMAIN records : rows[table][k] = records[k]

\* Whenever the mirror has caught up, after any crashes and replays, it shows
\* exactly what the contract stores; only a quote with a receipt stays settled
\* in the mirror when its merchant commits it again.
MirrorExact ==
  at = Len(log) /\ ServiceIdsUnique =>
    /\ SameRows("merchants", merchants)
    /\ SameRows("services", services)
    /\ SameRows("facilitators", facilitatorsById)
    /\ DOMAIN rows.quotes = {c \in Commitments : Committed(c)}
    /\ \A c \in DOMAIN rows.quotes : rows.quotes[c] <=> ReceiptsOf(c) # {}
    /\ DOMAIN rows.receipts = DOMAIN receipts
    /\ \A r \in DOMAIN receipts : rows.receipts[r].fulfillmentHash = receipts[r].fulfillmentHash
    /\ SameRows("disputes", disputes)
    /\ SameRows("signals", trustSignals)
=============================================================================
