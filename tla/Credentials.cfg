SPECIFICATION Spec
CONSTANTS
    q1 = q1
    q2 = q2
    q3 = q3
    ca = ca
    key = key
    Requests = {q1, q2, q3}
    Datas = {ca}
    MaxConcurrent = 2
INVARIANTS
    TypeOK
    LoneClientsCanConnect
    FootprintIsWiped
CHECK_DEADLOCK FALSE
