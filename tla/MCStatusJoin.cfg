SPECIFICATION Spec
CONSTANTS
    Listeners = {l1, l2}
    Services = {a, b}
    Rows = {0, 1}
    Nothing = Nothing
    MaxChanges = 2
    MaxWatches = 2
INVARIANTS
    SubscriberAnswered
