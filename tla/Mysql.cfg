CONSTANTS
    q1 = q1
    q2 = q2
    q3 = q3
    p1 = p1
    e1 = e1
    Queries = {q1, q2, q3}
    Prepares = {p1}
    Executes = {e1}
    Clients <- MCClients
SPECIFICATION Spec
INVARIANTS
    AnswersOwnOnce
    ResultsStable
PROPERTIES
    SingleFlight
    AllAnsweredInTurn
