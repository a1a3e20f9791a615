SPECIFICATION Spec
CONSTANTS
    c1 = c1
    c2 = c2
    c3 = c3
    run = run
    pair = pair
    command = command
    Clients = {c1, c2, c3}
    Agents = {run}
    Commands = {command}
    MaxClients = 2
    NoClient = NoClient
SYMMETRY Symmetry
INVARIANTS
    ForgetTakesEffect
