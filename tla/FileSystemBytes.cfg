CONSTANTS
  Archivos = {Consoles}
  cant_bloques = 8
  tamanio_bloque = 8
  Tamanios <- UnoYMedio
  MaxTruncados = 2
  MaxCaidas = 0
SPECIFICATION Spec
INVARIANT TamanioCubierto
CHECK_DEADLOCK FALSE
