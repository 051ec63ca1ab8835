SPECIFICATION WebhookSpec
CONSTANTS
    Webhooks = {h1}
    Emails = {e1}
    Workers = {w1, w2}
    MaxAttempts = 2
INVARIANTS
    TypeOK
    DeliveredWasTaken
    MailsBounded
PROPERTIES
    MailFinishedForGood
    WebhookSettles
CHECK_DEADLOCK FALSE
